---------------------------- MODULE Spec2Model ----------------------------
(***************************************************************************)
(* Drishti / ThinkTank bot: the natural-language-to-SQL pipeline.          *)
(*                                                                         *)
(*   src/sql_builder.py     build_sql, the deterministic SQL builder       *)
(*   src/database.py        SimpleDatabase, validation + query cache       *)
(*   src/nlp_extractor.py   NLPExtractor.extract and its post-processing   *)
(*   src/config.py          TABLE_SCHEMA, PRODUCTS, SQL_PATTERNS,          *)
(*                          TIME_PATTERNS, CACHE_TTL                       *)
(*                                                                         *)
(* Python text is modelled by TLA+ strings, character by character: the    *)
(* string operators below are the str / re operations the code uses.       *)
(* Python's None is the value None below; a dict is a sequence of its      *)
(* items in insertion order.                                               *)
(***************************************************************************)
EXTENDS Integers, Sequences, FiniteSets, TLC

-----------------------------------------------------------------------------
(* Python values *)

None == "<None>"

Truthy(v) == v # None /\ v # ""

(* F(v), with v evaluated once and F applied to its value *)
Let(v, F(_)) == CHOOSE r \in {F(x) : x \in {v}} : TRUE

-----------------------------------------------------------------------------
(* str operations *)

Char(s, i) == SubSeq(s, i, i)

(* s[i-1:j]: positions i..j of s, clamped to the string as a Python slice is *)
Slice(s, i, j) ==
  LET lo == IF i < 1 THEN 1 ELSE i
      hi == IF j > Len(s) THEN Len(s) ELSE j
  IN IF lo > hi THEN "" ELSE SubSeq(s, lo, hi)

StartsWith(s, p) == Len(p) <= Len(s) /\ Slice(s, 1, Len(p)) = p

EndsWith(s, p) == Len(p) <= Len(s) /\ Slice(s, Len(s) - Len(p) + 1, Len(s)) = p

MatchAt(s, i, sub) == i >= 1 /\ i + Len(sub) - 1 <= Len(s) /\ Slice(s, i, i + Len(sub) - 1) = sub

Contains(s, sub) == \E t \in {s} : \E i \in 1..(Len(t) - Len(sub) + 1) : MatchAt(t, i, sub)

LowerAlpha == "abcdefghijklmnopqrstuvwxyz"

UpperAlpha == "ABCDEFGHIJKLMNOPQRSTUVWXYZ"

Digits == "0123456789"

IndexIn(c, alphabet) ==
  IF \E i \in 1..Len(alphabet) : Char(alphabet, i) = c
  THEN CHOOSE i \in 1..Len(alphabet) : Char(alphabet, i) = c
  ELSE 0

CharsOf(alphabet) == {Char(alphabet, i) : i \in 1..Len(alphabet)}

LowerChars == CharsOf(LowerAlpha)
UpperChars == CharsOf(UpperAlpha)
DigitChars == CharsOf(Digits)

ToUpper == [c \in LowerChars |-> Char(UpperAlpha, IndexIn(c, LowerAlpha))]
ToLower == [c \in UpperChars |-> Char(LowerAlpha, IndexIn(c, UpperAlpha))]

IsLower(c) == c \in LowerChars
IsUpper(c) == c \in UpperChars
IsLetter(c) == IsLower(c) \/ IsUpper(c)
IsDigit(c) == c \in DigitChars
IsSpace(c) == c \in {" ", "\t", "\n", "\r"}
IsWordChar(c) == IsLetter(c) \/ IsDigit(c) \/ c = "_"

UpperChar(c) == IF IsLower(c) THEN ToUpper[c] ELSE c

LowerChar(c) == IF IsUpper(c) THEN ToLower[c] ELSE c

RECURSIVE UpperRange(_, _, _)
UpperRange(s, lo, hi) ==
  IF lo > hi THEN ""
  ELSE IF lo = hi THEN UpperChar(Char(s, lo))
  ELSE LET mid == (lo + hi) \div 2
       IN UpperRange(s, lo, mid) \o UpperRange(s, mid + 1, hi)

Upper(s) == Let(s, LAMBDA t : UpperRange(t, 1, Len(t)))

RECURSIVE LowerRange(_, _, _)
LowerRange(s, lo, hi) ==
  IF lo > hi THEN ""
  ELSE IF lo = hi THEN LowerChar(Char(s, lo))
  ELSE LET mid == (lo + hi) \div 2
       IN LowerRange(s, lo, mid) \o LowerRange(s, mid + 1, hi)

Lower(s) == Let(s, LAMBDA t : LowerRange(t, 1, Len(t)))

(* str.title(): a letter that follows a non-letter is upper-cased, every
   other letter lower-cased. *)
TitleChar(s, i) ==
  IF i = 1 \/ ~IsLetter(Char(s, i - 1)) THEN UpperChar(Char(s, i)) ELSE LowerChar(Char(s, i))

RECURSIVE TitleRange(_, _, _)
TitleRange(s, lo, hi) ==
  IF lo > hi THEN ""
  ELSE IF lo = hi THEN TitleChar(s, lo)
  ELSE LET mid == (lo + hi) \div 2
       IN TitleRange(s, lo, mid) \o TitleRange(s, mid + 1, hi)

Title(s) == Let(s, LAMBDA t : TitleRange(t, 1, Len(t)))

(* str.strip() *)
StripOf(s, keep) ==
  IF keep = {} THEN ""
  ELSE Slice(s, CHOOSE i \in keep : \A j \in keep : i <= j,
                CHOOSE i \in keep : \A j \in (i + 1)..Len(s) : j \notin keep)

Strip(s) ==
  Let(s, LAMBDA t : Let({i \in 1..Len(t) : ~IsSpace(Char(t, i))}, LAMBDA keep : StripOf(t, keep)))

(* str.find(sub, start): the first index >= start where sub occurs, 0 if none *)
FindFrom(s, start, sub) ==
  Let({i \in start..(Len(s) - Len(sub) + 1) : MatchAt(s, i, sub)},
      LAMBDA hits : IF hits = {} THEN 0 ELSE CHOOSE i \in hits : \A j \in hits : i <= j)

(* str.replace(old, new), old non-empty: leftmost non-overlapping occurrences *)
RECURSIVE ReplaceFrom(_, _, _, _)
ReplaceFrom(s, start, old, new) ==
  Let(FindFrom(s, start, old),
      LAMBDA p : IF p = 0 THEN Slice(s, start, Len(s))
                 ELSE Slice(s, start, p - 1) \o new \o ReplaceFrom(s, p + Len(old), old, new))

Replace(s, old, new) == Let(s, LAMBDA t : ReplaceFrom(t, 1, old, new))

(* sep.join(parts) *)
RECURSIVE JoinRange(_, _, _, _)
JoinRange(parts, lo, hi, sep) ==
  IF lo > hi THEN ""
  ELSE IF lo = hi THEN parts[lo]
  ELSE LET mid == (lo + hi) \div 2
       IN JoinRange(parts, lo, mid, sep) \o sep \o JoinRange(parts, mid + 1, hi, sep)

Join(parts, sep) == JoinRange(parts, 1, Len(parts), sep)

(* str(n) of a non-negative int *)
RECURSIVE IntToStr(_)
IntToStr(n) ==
  IF n < 10 THEN Char(Digits, n + 1)
  ELSE IntToStr(n \div 10) \o Char(Digits, (n % 10) + 1)

(* list comprehension building blocks *)
MapSeq(xs, F(_)) == [i \in 1..Len(xs) |-> F(xs[i])]

InSeq(x, xs) == \E i \in 1..Len(xs) : xs[i] = x

-----------------------------------------------------------------------------
(* src/config.py *)

TABLE_SCHEMA_ITEMS ==
  << [name |-> "leadid", data_type |-> "bigint", is_categorical |-> FALSE, pii_level |-> "none", masking_strategy |-> "none"],
     [name |-> "customerid", data_type |-> "bigint", is_categorical |-> FALSE, pii_level |-> "low", masking_strategy |-> "hash"],
     [name |-> "investmenttypeid", data_type |-> "int", is_categorical |-> TRUE, pii_level |-> "none", masking_strategy |-> "none"],
     [name |-> "referralid", data_type |-> "bigint", is_categorical |-> FALSE, pii_level |-> "low", masking_strategy |-> "hash"],
     [name |-> "referralid2", data_type |-> "string", is_categorical |-> TRUE, pii_level |-> "low", masking_strategy |-> "hash"],
     [name |-> "covertypeid", data_type |-> "int", is_categorical |-> TRUE, pii_level |-> "none", masking_strategy |-> "none"],
     [name |-> "leaddate", data_type |-> "date", is_categorical |-> FALSE, pii_level |-> "low", masking_strategy |-> "faker"],
     [name |-> "full_leaddate", data_type |-> "string", is_categorical |-> FALSE, pii_level |-> "low", masking_strategy |-> "faker"],
     [name |-> "leadmonth", data_type |-> "string", is_categorical |-> TRUE, pii_level |-> "low", masking_strategy |-> "faker"],
     [name |-> "lead_year", data_type |-> "string", is_categorical |-> TRUE, pii_level |-> "low", masking_strategy |-> "none"],
     [name |-> "bookingdate", data_type |-> "date", is_categorical |-> FALSE, pii_level |-> "low", masking_strategy |-> "faker"],
     [name |-> "full_bookingdate", data_type |-> "string", is_categorical |-> FALSE, pii_level |-> "low", masking_strategy |-> "faker"],
     [name |-> "bookingmonth", data_type |-> "string", is_categorical |-> TRUE, pii_level |-> "low", masking_strategy |-> "none"],
     [name |-> "booking_year", data_type |-> "string", is_categorical |-> TRUE, pii_level |-> "low", masking_strategy |-> "none"],
     [name |-> "leadassigneddate", data_type |-> "date", is_categorical |-> FALSE, pii_level |-> "low", masking_strategy |-> "faker"],
     [name |-> "full_leadassigneddate", data_type |-> "string", is_categorical |-> FALSE, pii_level |-> "low", masking_strategy |-> "faker"],
     [name |-> "first_assigneddate", data_type |-> "string", is_categorical |-> FALSE, pii_level |-> "low", masking_strategy |-> "faker"],
     [name |-> "statusdate", data_type |-> "date", is_categorical |-> FALSE, pii_level |-> "low", masking_strategy |-> "faker"],
     [name |-> "issuancedate", data_type |-> "date", is_categorical |-> FALSE, pii_level |-> "low", masking_strategy |-> "faker"],
     [name |-> "revenuedate", data_type |-> "date", is_categorical |-> FALSE, pii_level |-> "low", masking_strategy |-> "faker"],
     [name |-> "customer_filled_first_transitype_date", data_type |-> "string", is_categorical |-> FALSE, pii_level |-> "low", masking_strategy |-> "faker"],
     [name |-> "policystartdate", data_type |-> "string", is_categorical |-> FALSE, pii_level |-> "low", masking_strategy |-> "faker"],
     [name |-> "policyenddate", data_type |-> "string", is_categorical |-> FALSE, pii_level |-> "low", masking_strategy |-> "faker"],
     [name |-> "paymentdate", data_type |-> "string", is_categorical |-> FALSE, pii_level |-> "low", masking_strategy |-> "faker"],
     [name |-> "contact_person_name", data_type |-> "string", is_categorical |-> FALSE, pii_level |-> "high", masking_strategy |-> "faker"],
     [name |-> "client", data_type |-> "string", is_categorical |-> TRUE, pii_level |-> "low", masking_strategy |-> "hash"],
     [name |-> "companyname", data_type |-> "string", is_categorical |-> TRUE, pii_level |-> "low", masking_strategy |-> "faker"],
     [name |-> "occupancyid", data_type |-> "int", is_categorical |-> TRUE, pii_level |-> "none", masking_strategy |-> "none"],
     [name |-> "unsubscription_flag", data_type |-> "int", is_categorical |-> TRUE, pii_level |-> "none", masking_strategy |-> "none"],
     [name |-> "occupancyname", data_type |-> "string", is_categorical |-> TRUE, pii_level |-> "none", masking_strategy |-> "none"],
     [name |-> "parentcategoryid", data_type |-> "int", is_categorical |-> FALSE, pii_level |-> "none", masking_strategy |-> "none"],
     [name |-> "occupancyname2", data_type |-> "string", is_categorical |-> TRUE, pii_level |-> "none", masking_strategy |-> "none"],
     [name |-> "booking_occupancy", data_type |-> "varchar(500)", is_categorical |-> TRUE, pii_level |-> "none", masking_strategy |-> "none"],
     [name |-> "lead_occupancy", data_type |-> "varchar(500)", is_categorical |-> TRUE, pii_level |-> "none", masking_strategy |-> "none"],
     [name |-> "mtx_occupancy", data_type |-> "varchar(500)", is_categorical |-> TRUE, pii_level |-> "none", masking_strategy |-> "none"],
     [name |-> "leadassignedagentname", data_type |-> "varchar(100)", is_categorical |-> TRUE, pii_level |-> "low", masking_strategy |-> "faker"],
     [name |-> "currentlyassigneduser", data_type |-> "varchar(100)", is_categorical |-> TRUE, pii_level |-> "low", masking_strategy |-> "faker"],
     [name |-> "leadreportingmanagername", data_type |-> "string", is_categorical |-> TRUE, pii_level |-> "low", masking_strategy |-> "faker"],
     [name |-> "leadreportingmanagername2", data_type |-> "varchar(100)", is_categorical |-> TRUE, pii_level |-> "low", masking_strategy |-> "faker"],
     [name |-> "lead_agentid", data_type |-> "varchar(255)", is_categorical |-> FALSE, pii_level |-> "none", masking_strategy |-> "hash"],
     [name |-> "lead_manager_id", data_type |-> "varchar(100)", is_categorical |-> FALSE, pii_level |-> "low", masking_strategy |-> "hash"],
     [name |-> "first_assigned_agent", data_type |-> "varchar(100)", is_categorical |-> TRUE, pii_level |-> "low", masking_strategy |-> "faker"],
     [name |-> "first_assigned_agentid", data_type |-> "varchar(255)", is_categorical |-> FALSE, pii_level |-> "low", masking_strategy |-> "hash"],
     [name |-> "booking_agent", data_type |-> "varchar(100)", is_categorical |-> TRUE, pii_level |-> "low", masking_strategy |-> "faker"],
     [name |-> "booking_agent_manager", data_type |-> "string", is_categorical |-> TRUE, pii_level |-> "low", masking_strategy |-> "faker"],
     [name |-> "booking_agent_manager2", data_type |-> "varchar(100)", is_categorical |-> TRUE, pii_level |-> "low", masking_strategy |-> "faker"],
     [name |-> "booking_manager_id", data_type |-> "varchar(100)", is_categorical |-> FALSE, pii_level |-> "low", masking_strategy |-> "hash"],
     [name |-> "bookingagent_id", data_type |-> "varchar(255)", is_categorical |-> FALSE, pii_level |-> "low", masking_strategy |-> "hash"],
     [name |-> "lead2assignment_tat_mins", data_type |-> "double", is_categorical |-> FALSE, pii_level |-> "none", masking_strategy |-> "none"],
     [name |-> "customer_filled_first_transitype", data_type |-> "string", is_categorical |-> TRUE, pii_level |-> "none", masking_strategy |-> "none"],
     [name |-> "transittype2", data_type |-> "string", is_categorical |-> TRUE, pii_level |-> "none", masking_strategy |-> "none"],
     [name |-> "assignedbyuserid", data_type |-> "bigint", is_categorical |-> FALSE, pii_level |-> "low", masking_strategy |-> "hash"],
     [name |-> "assigned_to_group_name", data_type |-> "varchar(200)", is_categorical |-> TRUE, pii_level |-> "none", masking_strategy |-> "none"],
     [name |-> "assigntogroupid", data_type |-> "int", is_categorical |-> FALSE, pii_level |-> "none", masking_strategy |-> "none"],
     [name |-> "parentid", data_type |-> "bigint", is_categorical |-> FALSE, pii_level |-> "none", masking_strategy |-> "none"],
     [name |-> "transittype", data_type |-> "string", is_categorical |-> TRUE, pii_level |-> "none", masking_strategy |-> "none"],
     [name |-> "state", data_type |-> "varchar(30)", is_categorical |-> TRUE, pii_level |-> "low", masking_strategy |-> "faker"],
     [name |-> "city", data_type |-> "varchar(50)", is_categorical |-> TRUE, pii_level |-> "low", masking_strategy |-> "faker"],
     [name |-> "city_tier", data_type |-> "int", is_categorical |-> TRUE, pii_level |-> "none", masking_strategy |-> "none"],
     [name |-> "typeofpolicy", data_type |-> "string", is_categorical |-> TRUE, pii_level |-> "low", masking_strategy |-> "none"],
     [name |-> "productname", data_type |-> "string", is_categorical |-> TRUE, pii_level |-> "none", masking_strategy |-> "none"],
     [name |-> "lead_subproduct", data_type |-> "string", is_categorical |-> TRUE, pii_level |-> "none", masking_strategy |-> "none"],
     [name |-> "lead_subproduct2", data_type |-> "varchar(50)", is_categorical |-> TRUE, pii_level |-> "none", masking_strategy |-> "none"],
     [name |-> "booking_subproduct", data_type |-> "string", is_categorical |-> TRUE, pii_level |-> "none", masking_strategy |-> "none"],
     [name |-> "product_bucket", data_type |-> "string", is_categorical |-> TRUE, pii_level |-> "none", masking_strategy |-> "none"],
     [name |-> "planname", data_type |-> "varchar(100)", is_categorical |-> TRUE, pii_level |-> "none", masking_strategy |-> "none"],
     [name |-> "planid", data_type |-> "int", is_categorical |-> FALSE, pii_level |-> "none", masking_strategy |-> "none"],
     [name |-> "leadeb_noneb", data_type |-> "string", is_categorical |-> TRUE, pii_level |-> "none", masking_strategy |-> "none"],
     [name |-> "leadsource", data_type |-> "string", is_categorical |-> TRUE, pii_level |-> "low", masking_strategy |-> "hash"],
     [name |-> "leadcreationsource", data_type |-> "string", is_categorical |-> TRUE, pii_level |-> "low", masking_strategy |-> "hash"],
     [name |-> "utm_source", data_type |-> "string", is_categorical |-> TRUE, pii_level |-> "none", masking_strategy |-> "none"],
     [name |-> "final_utmsource", data_type |-> "string", is_categorical |-> TRUE, pii_level |-> "none", masking_strategy |-> "none"],
     [name |-> "utm_medium", data_type |-> "string", is_categorical |-> TRUE, pii_level |-> "none", masking_strategy |-> "none"],
     [name |-> "utm_term", data_type |-> "string", is_categorical |-> FALSE, pii_level |-> "none", masking_strategy |-> "none"],
     [name |-> "branchname", data_type |-> "string", is_categorical |-> TRUE, pii_level |-> "low", masking_strategy |-> "faker"],
     [name |-> "utm_campaign", data_type |-> "string", is_categorical |-> TRUE, pii_level |-> "none", masking_strategy |-> "none"],
     [name |-> "utm_content", data_type |-> "string", is_categorical |-> TRUE, pii_level |-> "none", masking_strategy |-> "none"],
     [name |-> "mkt_category", data_type |-> "string", is_categorical |-> TRUE, pii_level |-> "none", masking_strategy |-> "none"],
     [name |-> "lead_department", data_type |-> "string", is_categorical |-> TRUE, pii_level |-> "low", masking_strategy |-> "none"],
     [name |-> "is_lead_hybrid", data_type |-> "string", is_categorical |-> TRUE, pii_level |-> "none", masking_strategy |-> "none"],
     [name |-> "booking_eb_noneb", data_type |-> "string", is_categorical |-> TRUE, pii_level |-> "none", masking_strategy |-> "none"],
     [name |-> "booking_department", data_type |-> "string", is_categorical |-> TRUE, pii_level |-> "none", masking_strategy |-> "none"],
     [name |-> "is_booking_hybrid", data_type |-> "string", is_categorical |-> TRUE, pii_level |-> "none", masking_strategy |-> "none"],
     [name |-> "statusname", data_type |-> "varchar(50)", is_categorical |-> TRUE, pii_level |-> "low", masking_strategy |-> "redact"],
     [name |-> "bms_statusname", data_type |-> "varchar(50)", is_categorical |-> TRUE, pii_level |-> "low", masking_strategy |-> "redact"],
     [name |-> "statusid", data_type |-> "int", is_categorical |-> FALSE, pii_level |-> "none", masking_strategy |-> "none"],
     [name |-> "statusby", data_type |-> "bigint", is_categorical |-> FALSE, pii_level |-> "low", masking_strategy |-> "hash"],
     [name |-> "substatusname", data_type |-> "varchar(100)", is_categorical |-> TRUE, pii_level |-> "low", masking_strategy |-> "redact"],
     [name |-> "substatusid", data_type |-> "int", is_categorical |-> FALSE, pii_level |-> "none", masking_strategy |-> "none"],
     [name |-> "booking_status", data_type |-> "string", is_categorical |-> TRUE, pii_level |-> "low", masking_strategy |-> "redact"],
     [name |-> "suminsured", data_type |-> "double", is_categorical |-> FALSE, pii_level |-> "none", masking_strategy |-> "none"],
     [name |-> "premium", data_type |-> "double", is_categorical |-> FALSE, pii_level |-> "none", masking_strategy |-> "none"],
     [name |-> "brokerage", data_type |-> "double", is_categorical |-> FALSE, pii_level |-> "none", masking_strategy |-> "none"],
     [name |-> "revenue", data_type |-> "double", is_categorical |-> FALSE, pii_level |-> "none", masking_strategy |-> "none"],
     [name |-> "periodicityamount", data_type |-> "double", is_categorical |-> FALSE, pii_level |-> "none", masking_strategy |-> "none"],
     [name |-> "insurername", data_type |-> "varchar(100)", is_categorical |-> TRUE, pii_level |-> "low", masking_strategy |-> "faker"],
     [name |-> "supplierid", data_type |-> "int", is_categorical |-> FALSE, pii_level |-> "none", masking_strategy |-> "none"],
     [name |-> "insurerfullname", data_type |-> "varchar(100)", is_categorical |-> TRUE, pii_level |-> "low", masking_strategy |-> "faker"],
     [name |-> "tpaname", data_type |-> "string", is_categorical |-> TRUE, pii_level |-> "low", masking_strategy |-> "faker"],
     [name |-> "totalnooflives", data_type |-> "int", is_categorical |-> FALSE, pii_level |-> "none", masking_strategy |-> "none"],
     [name |-> "totalnoofemployees", data_type |-> "int", is_categorical |-> FALSE, pii_level |-> "none", masking_strategy |-> "none"],
     [name |-> "paymentsource", data_type |-> "string", is_categorical |-> TRUE, pii_level |-> "low", masking_strategy |-> "faker"],
     [name |-> "policyno", data_type |-> "string", is_categorical |-> FALSE, pii_level |-> "low", masking_strategy |-> "hash"],
     [name |-> "paymentstatus", data_type |-> "bigint", is_categorical |-> TRUE, pii_level |-> "none", masking_strategy |-> "none"],
     [name |-> "paymentstatus2", data_type |-> "bigint", is_categorical |-> TRUE, pii_level |-> "none", masking_strategy |-> "none"],
     [name |-> "paymentsubstatus", data_type |-> "int", is_categorical |-> TRUE, pii_level |-> "none", masking_strategy |-> "none"],
     [name |-> "paymentperiodicity", data_type |-> "string", is_categorical |-> TRUE, pii_level |-> "none", masking_strategy |-> "none"],
     [name |-> "new_eb_payment_mode", data_type |-> "string", is_categorical |-> TRUE, pii_level |-> "none", masking_strategy |-> "none"],
     [name |-> "policytype", data_type |-> "string", is_categorical |-> TRUE, pii_level |-> "none", masking_strategy |-> "none"],
     [name |-> "ispaymentdone", data_type |-> "string", is_categorical |-> TRUE, pii_level |-> "none", masking_strategy |-> "none"],
     [name |-> "isassisted", data_type |-> "string", is_categorical |-> TRUE, pii_level |-> "none", masking_strategy |-> "none"],
     [name |-> "kycstatusid", data_type |-> "int", is_categorical |-> TRUE, pii_level |-> "low", masking_strategy |-> "hash"],
     [name |-> "kyctypeid", data_type |-> "int", is_categorical |-> TRUE, pii_level |-> "low", masking_strategy |-> "hash"],
     [name |-> "kyctype", data_type |-> "string", is_categorical |-> TRUE, pii_level |-> "low", masking_strategy |-> "none"],
     [name |-> "kycstatus", data_type |-> "string", is_categorical |-> TRUE, pii_level |-> "low", masking_strategy |-> "none"],
     [name |-> "is_pure", data_type |-> "string", is_categorical |-> TRUE, pii_level |-> "none", masking_strategy |-> "none"],
     [name |-> "issuence", data_type |-> "string", is_categorical |-> TRUE, pii_level |-> "none", masking_strategy |-> "none"],
     [name |-> "lead_count", data_type |-> "int", is_categorical |-> FALSE, pii_level |-> "none", masking_strategy |-> "none"],
     [name |-> "booking_count", data_type |-> "int", is_categorical |-> FALSE, pii_level |-> "none", masking_strategy |-> "none"],
     [name |-> "conversioncheck", data_type |-> "int", is_categorical |-> TRUE, pii_level |-> "none", masking_strategy |-> "none"],
     [name |-> "cpmrto", data_type |-> "int", is_categorical |-> TRUE, pii_level |-> "none", masking_strategy |-> "none"],
     [name |-> "customertype", data_type |-> "string", is_categorical |-> TRUE, pii_level |-> "low", masking_strategy |-> "faker"],
     [name |-> "continuepq", data_type |-> "string", is_categorical |-> FALSE, pii_level |-> "low", masking_strategy |-> "faker"],
     [name |-> "shipmenttype", data_type |-> "string", is_categorical |-> TRUE, pii_level |-> "none", masking_strategy |-> "none"],
     [name |-> "leadgrade", data_type |-> "int", is_categorical |-> TRUE, pii_level |-> "none", masking_strategy |-> "none"],
     [name |-> "leadrank", data_type |-> "int", is_categorical |-> TRUE, pii_level |-> "none", masking_strategy |-> "none"],
     [name |-> "leadscore", data_type |-> "double", is_categorical |-> FALSE, pii_level |-> "none", masking_strategy |-> "none"],
     [name |-> "exitpointurl", data_type |-> "string", is_categorical |-> FALSE, pii_level |-> "low", masking_strategy |-> "redact"],
     [name |-> "mktcategory", data_type |-> "string", is_categorical |-> TRUE, pii_level |-> "none", masking_strategy |-> "none"],
     [name |-> "mktcategoryfinal", data_type |-> "string", is_categorical |-> TRUE, pii_level |-> "none", masking_strategy |-> "none"],
     [name |-> "lead_lob", data_type |-> "string", is_categorical |-> TRUE, pii_level |-> "none", masking_strategy |-> "none"],
     [name |-> "booking_lob", data_type |-> "string", is_categorical |-> TRUE, pii_level |-> "none", masking_strategy |-> "none"] >>

TABLE_SCHEMA ==
  [c \in {TABLE_SCHEMA_ITEMS[i].name : i \in 1..Len(TABLE_SCHEMA_ITEMS)} |->
     CHOOSE r \in {TABLE_SCHEMA_ITEMS[i] : i \in 1..Len(TABLE_SCHEMA_ITEMS)} : r.name = c]

InSchema(column) == column \in DOMAIN TABLE_SCHEMA

PRODUCTS ==
  << <<"group health insurance", 1>>, <<"group health", 1>>, <<"ghi", 1>>,
     <<"group personal accident", 2>>, <<"group accident", 2>>, <<"group term life", 3>>,
     <<"group life", 3>>, <<"group travel insurance", 4>>, <<"group travel", 4>>,
     <<"fire", 5>>, <<"fire insurance", 5>>, <<"burglary insurance", 6>>,
     <<"burglary", 6>>, <<"office package policy", 7>>, <<"office package", 7>>,
     <<"shop owners insurance", 8>>, <<"shop owners", 8>>, <<"key man insurance", 10>>,
     <<"key man", 10>>, <<"group gratuity insurance", 11>>, <<"group gratuity", 11>>,
     <<"general liability", 12>>, <<"liability", 12>>, <<"marine insurance", 13>>,
     <<"marine", 13>>, <<"professional indemnity for doctors", 14>>, <<"doctors indemnity", 14>>,
     <<"directors officers liability", 15>>, <<"directors liability", 15>>, <<"construction all risk", 16>>,
     <<"construction risk", 16>>, <<"erection all risk", 17>>, <<"erection risk", 17>>,
     <<"plant machinery", 18>>, <<"plant", 18>>, <<"machinery", 18>>,
     <<"workmen compensation", 19>>, <<"workmen comp", 19>>, <<"workmen", 19>>,
     <<"wc", 19>>, <<"professional indemnity companies", 20>>, <<"company indemnity", 20>>,
     <<"cyber risk insurance", 21>>, <<"cyber insurance", 21>>, <<"cyber", 21>>,
     <<"commercial crime insurance", 22>>, <<"commercial crime", 22>>, <<"product liability", 23>>,
     <<"public liability", 24>>, <<"opd", 25>>, <<"event cancellation insurance", 26>>,
     <<"event cancellation", 26>>, <<"player loss of fees", 27>>, <<"custom duty package policy", 28>>,
     <<"custom duty", 28>>, <<"transport operators liability", 29>>, <<"transport liability", 29>>,
     <<"credit insurance", 32>>, <<"credit", 32>>, <<"group care policy covid", 33>>,
     <<"covid cover", 33>>, <<"fleet insurance", 34>>, <<"fleet", 34>>,
     <<"clinical trial insurance", 35>>, <<"clinical trial", 35>>, <<"group total protect policy", 36>>,
     <<"total protect", 36>>, <<"aviation insurance", 37>>, <<"aviation", 37>>,
     <<"electric equipment insurance", 38>>, <<"electric equipment", 38>>, <<"fidelity insurance", 39>>,
     <<"fidelity", 39>>, <<"industrial all risk insurance", 40>>, <<"industrial risk", 40>>,
     <<"kisan suvidha bima policy", 41>>, <<"kisan suvidha", 41>>, <<"pet insurance", 42>>,
     <<"pet", 42>>, <<"cattle insurance", 43>>, <<"cattle", 43>>,
     <<"boiler pressure plant insurance", 44>>, <<"boiler insurance", 44>>, <<"plate glass insurance", 45>>,
     <<"plate glass", 45>>, <<"all risks insurance", 46>>, <<"all risks", 46>>,
     <<"money insurance", 47>>, <<"money", 47>>, <<"others", 99>>,
     <<"edli scheme", 100>>, <<"affinity insurance", 102>>, <<"affinity", 102>>,
     <<"group health top up insurance", 103>>, <<"health top up", 103>>, <<"group term top up insurance", 104>>,
     <<"term top up", 104>>, <<"machinery breakdown", 106>>, <<"kidnap ransom extortion insurance", 110>>,
     <<"kidnap insurance", 110>>, <<"standard fire special perils", 112>>, <<"fire special perils", 112>>,
     <<"fire package policy", 113>>, <<"portable equipment insurance", 114>>, <<"portable equipment", 114>>,
     <<"jewellers block insurance", 115>>, <<"jewellers block", 115>>, <<"neon sign", 116>>,
     <<"drone insurance", 117>>, <<"drone", 117>>, <<"baggage", 119>>,
     <<"travel", 120>>, <<"petrol station package policy", 121>>, <<"petrol station", 121>>,
     <<"fire loss of profit", 122>>, <<"bharat griha raksha", 123>>, <<"special contingency policy", 184>>,
     <<"professional indemnity medical establishments", 185>>, <<"medical establishments indemnity", 185>>, <<"cyber risk insurance individuals", 186>>,
     <<"individual cyber", 186>>, <<"carrier legal liability", 187>>, <<"information communication technology liability", 188>>,
     <<"ict liability", 188>> >>

SQL_PATTERNS ==
  << <<"leads", "COUNT(*) as leads">>,
     <<"bookings", "COUNT(CASE WHEN booking_status='IssuedBusiness' THEN 1 END) as bookings">>,
     <<"revenue", "SUM(revenue) as total_revenue">>,
     <<"premium", "SUM(premium) as total_premium">>,
     <<"brokerage", "SUM(brokerage) as total_brokerage">>,
     <<"conversion_rate", "(COUNT(CASE WHEN booking_status='IssuedBusiness' THEN 1 END) * 100.0 / COUNT(*)) as conversion_rate">>,
     <<"avg_premium", "AVG(premium) as avg_premium">>,
     <<"sum_insured", "SUM(suminsured) as total_sum_insured">>,
     <<"lives_covered", "SUM(totalnooflives) as total_lives">> >>

TIME_PATTERNS ==
  << <<"today", "DATE(leaddate) = CURRENT_DATE">>,
     <<"yesterday", "DATE(leaddate) = CURRENT_DATE - INTERVAL '1' DAY">>,
     <<"this week", "leaddate >= DATE_TRUNC('week', CURRENT_DATE)">>,
     <<"last week", "leaddate >= DATE_TRUNC('week', CURRENT_DATE) - INTERVAL '7' DAY AND leaddate < DATE_TRUNC('week', CURRENT_DATE)">>,
     <<"this month", "leaddate >= DATE_TRUNC('month', CURRENT_DATE)">>,
     <<"last month", "leaddate >= DATE_TRUNC('month', CURRENT_DATE) - INTERVAL '1' MONTH AND leaddate < DATE_TRUNC('month', CURRENT_DATE)">> >>

(* dict.get(key) on a dict given as its items: None when the key is absent *)
DictGet(items, key) ==
  IF \E i \in 1..Len(items) : items[i][1] = key
  THEN items[CHOOSE i \in 1..Len(items) : items[i][1] = key][2]
  ELSE None

-----------------------------------------------------------------------------
(* src/distinct_cache.py: the column set the fuzzy fallback consults *)

columns_whitelist ==
  <<"mkt_category", "leadcreationsource", "booking_status", "insurername",
    "insurerfullname", "booking_occupancy", "lead_occupancy">>

max_columns == 10

_pick_columns ==
  LET cols == SelectSeq(columns_whitelist, InSchema)
  IN SubSeq(cols, 1, IF Len(cols) < max_columns THEN Len(cols) ELSE max_columns)

get_effective_columns == _pick_columns

-----------------------------------------------------------------------------
(* src/sql_builder.py *)

(* The intent record (the dict `entities`).  A filter value is
   [scalar, items]: a list of tokens, or a scalar with its one token; a token
   is a string or None.  fuzzy is the _fuzzy_value entry of
   filters: kind absent (no such key), none, str, list or dict (its values). *)

ALLOWED_TABLE == "sme_analytics.sme_leadbookingrevenue"

PyStr(v) == IF v = None THEN "None" ELSE v

_build_time_where(time_key, date_column) ==
  IF ~Truthy(time_key) THEN <<>>
  ELSE LET pattern == DictGet(TIME_PATTERNS, time_key)
       IN IF ~Truthy(pattern) THEN <<>>
          ELSE <<Replace(Replace(pattern, "leaddate", date_column), "bookingdate", date_column)>>

_validate_dimension(column) ==
  InSchema(column) /\ TABLE_SCHEMA[column].pii_level # "high"

_validate_filter_column(column) ==
  InSchema(column) /\ TABLE_SCHEMA[column].is_categorical

(* lines 41-53: the metric expressions that go into the SELECT list *)
UsesMetricsList(entities) == entities.metrics # <<>>

metric_selects(entities) ==
  LET valid == SelectSeq(entities.metrics, LAMBDA m : Truthy(DictGet(SQL_PATTERNS, m)))
  IN IF valid = <<>> THEN <<DictGet(SQL_PATTERNS, "leads")>>
     ELSE MapSeq(valid, LAMBDA m : DictGet(SQL_PATTERNS, m))

metric_key(entities) ==
  IF UsesMetricsList(entities) THEN entities.metric
  ELSE IF Truthy(entities.metric) /\ Truthy(DictGet(SQL_PATTERNS, entities.metric))
       THEN entities.metric
       ELSE "leads"

metric_expr(entities) == DictGet(SQL_PATTERNS, metric_key(entities))

(* lines 62-68 *)
date_column(entities) ==
  IF metric_key(entities) = "bookings" \/ InSeq("bookings", entities.metrics)
  THEN "bookingdate"
  ELSE "leaddate"

(* lines 71-74 *)
product_where(entities) ==
  IF entities.products # <<>>
  THEN <<"investmenttypeid IN (" \o Join(MapSeq(entities.products, IntToStr), ", ") \o ")">>
  ELSE <<>>

(* the time filter were the named key to take precedence over the range *)
time_where_key_first(entities) ==
  LET t == entities.time
      dc == date_column(entities)
  IN IF _build_time_where(t.key, dc) # <<>> THEN _build_time_where(t.key, dc)
     ELSE IF Truthy(t.start_date) /\ Truthy(t.end_date)
     THEN <<"DATE(" \o dc \o ") >= DATE '" \o t.start_date \o "'",
            "DATE(" \o dc \o ") <= DATE '" \o t.end_date \o "'">>
     ELSE <<>>

(* lines 76-82 *)
time_where(entities) ==
  LET t == entities.time
      dc == date_column(entities)
  IN IF Truthy(t.start_date) /\ Truthy(t.end_date)
     THEN <<"DATE(" \o dc \o ") >= DATE '" \o t.start_date \o "'",
            "DATE(" \o dc \o ") <= DATE '" \o t.end_date \o "'">>
     ELSE _build_time_where(t.key, dc)

(* lines 84-87 *)
flag_where(entities) ==
  IF entities.flags.shape = "dict" /\ entities.flags.online_only THEN <<"paymentstatus = 300">> ELSE <<>>

(* line 134: val_str.lower().startswith(('not ', '!=', '<>')) *)
is_negative(val_str) ==
  \/ Lower(Slice(val_str, 1, 4)) = "not "
  \/ StartsWith(val_str, "!=")
  \/ StartsWith(val_str, "<>")

(* line 136: re.sub removes a leading not, != or <> (IGNORECASE) and the
   whitespace after it, then strip() *)
val_part(val_str) ==
  LET n == IF Lower(Slice(val_str, 1, 3)) = "not" THEN 3
           ELSE IF StartsWith(val_str, "!=") \/ StartsWith(val_str, "<>") THEN 2
           ELSE 0
  IN Strip(Slice(val_str, n + 1, Len(val_str)))

(* line 138: re.fullmatch of an optional minus, digits, and optionally a dot
   and digits *)
AllDigits(s) == Len(s) >= 1 /\ \A i \in 1..Len(s) : IsDigit(Char(s, i))

IsNumericLiteral(s) ==
  LET body == IF StartsWith(s, "-") THEN Slice(s, 2, Len(s)) ELSE s
  IN \/ AllDigits(body)
     \/ \E d \in 2..(Len(body) - 1) :
          /\ Char(body, d) = "."
          /\ AllDigits(Slice(body, 1, d - 1))
          /\ AllDigits(Slice(body, d + 1, Len(body)))

IsNullToken(v) == Strip(Lower(PyStr(v))) = "null"

IsNotNullToken(v) == Strip(Lower(PyStr(v))) = "not null"

(* lines 126-166: the sub-clauses of one filter column; values is the token list *)
sub_clauses(col, values) ==
  LET safe_values == MapSeq(SelectSeq(values, LAMBDA v : v # None),
                            LAMBDA v : Replace(v, "'", "''"))
      other_values == SelectSeq(safe_values, LAMBDA v : ~IsNullToken(v) /\ ~IsNotNullToken(v))
      stripped == MapSeq(other_values, Strip)
      numeric_vals ==
        MapSeq(SelectSeq(stripped, LAMBDA v : ~is_negative(v) /\ IsNumericLiteral(val_part(v))), val_part)
      string_vals ==
        MapSeq(SelectSeq(stripped, LAMBDA v : ~is_negative(v) /\ ~IsNumericLiteral(val_part(v))),
               LAMBDA v : "'" \o val_part(v) \o "'")
      not_numeric_vals ==
        MapSeq(SelectSeq(stripped, LAMBDA v : is_negative(v) /\ IsNumericLiteral(val_part(v))), val_part)
      not_string_vals ==
        MapSeq(SelectSeq(stripped, LAMBDA v : is_negative(v) /\ ~IsNumericLiteral(val_part(v))),
               LAMBDA v : "'" \o val_part(v) \o "'")
  IN   (IF numeric_vals # <<>> THEN <<col \o " IN (" \o Join(numeric_vals, ", ") \o ")">> ELSE <<>>)
    \o (IF string_vals # <<>> THEN <<col \o " IN (" \o Join(string_vals, ", ") \o ")">> ELSE <<>>)
    \o (IF not_numeric_vals # <<>> THEN <<col \o " NOT IN (" \o Join(not_numeric_vals, ", ") \o ")">> ELSE <<>>)
    \o (IF not_string_vals # <<>> THEN <<col \o " NOT IN (" \o Join(not_string_vals, ", ") \o ")">> ELSE <<>>)
    \o (IF \E i \in 1..Len(values) : IsNotNullToken(values[i]) THEN <<col \o " IS NOT NULL">> ELSE <<>>)
    \o (IF \E i \in 1..Len(values) : IsNullToken(values[i]) THEN <<col \o " IS NULL">> ELSE <<>>)

(* lines 96-99: the column test of the filter loop *)
FilterColumnAccepted(col) == _validate_filter_column(col) \/ InSchema(col)

(* lines 95-169: one iteration of the filter loop, the clauses it appends *)
filter_where_one(col, value) ==
  IF ~FilterColumnAccepted(col) THEN <<>>
  ELSE IF value.scalar /\ value.items[1] # None /\ Strip(Lower(value.items[1])) = "not null"
       THEN <<col \o " IS NOT NULL">>
  ELSE IF value.scalar /\ value.items[1] # None /\ Strip(Lower(value.items[1])) = "null"
       THEN <<col \o " IS NULL">>
  ELSE IF \A i \in 1..Len(value.items) : value.items[i] = None THEN <<>>
  ELSE LET sc == sub_clauses(col, value.items)
       IN IF sc # <<>> THEN <<"(" \o Join(sc, " OR ") \o ")">> ELSE <<>>

RECURSIVE filter_where_from(_, _)
filter_where_from(filters, i) ==
  IF i > Len(filters) THEN <<>>
  ELSE filter_where_one(filters[i][1], filters[i][2]) \o filter_where_from(filters, i + 1)

filter_where(entities) == filter_where_from(entities.filters, 1)

(* lines 171-192 *)
FuzzyTruthy(fuzzy) ==
  \/ fuzzy.kind = "str" /\ fuzzy.items[1] # ""
  \/ fuzzy.kind \in {"list", "dict"} /\ fuzzy.items # <<>>

FuzzyText(fuzzy) ==
  IF fuzzy.kind = "dict" THEN Join(MapSeq(fuzzy.items, PyStr), " ")
  ELSE PyStr(fuzzy.items[1])

IsStringColumn(c) ==
  /\ InSchema(c)
  /\ \/ StartsWith(Lower(TABLE_SCHEMA[c].data_type), "varchar")
     \/ Lower(TABLE_SCHEMA[c].data_type) \in {"string", "text"}

guess_cols ==
  IF InSchema("leadassignedagentname") /\ ~InSeq("leadassignedagentname", get_effective_columns)
  THEN Append(get_effective_columns, "leadassignedagentname")
  ELSE get_effective_columns

fuzzy_where(entities) ==
  IF FuzzyTruthy(entities.fuzzy)
     /\ ~\E i \in 1..Len(entities.filters) : entities.filters[i][1] # ""
  THEN LET lowered == Replace(Lower(FuzzyText(entities.fuzzy)), "'", "''")
           string_cols == SelectSeq(guess_cols, IsStringColumn)
           like_clauses == MapSeq(string_cols,
                             LAMBDA c : "LOWER(CAST(" \o c \o " AS VARCHAR)) LIKE '%%" \o lowered \o "%%'")
       IN IF like_clauses # <<>> THEN <<"( " \o Join(like_clauses, " OR ") \o " )">> ELSE <<>>
  ELSE <<>>

where_clauses(entities) ==
     product_where(entities) \o time_where(entities) \o flag_where(entities)
  \o filter_where(entities) \o fuzzy_where(entities)

(* line 202 *)
dimensions(entities) == SelectSeq(entities.dimensions, _validate_dimension)

(* lines 214-221 *)
HasBucket(entities) == entities.time.granularity \in {"month", "week"}

bucket_expr(entities) ==
  "DATE_TRUNC('" \o entities.time.granularity \o "', " \o date_column(entities) \o ")"

bucket_alias(entities) == entities.time.granularity

(* lines 232-240: id_to_name, as its items in insertion order *)
product_ids ==
  MapSeq(SelectSeq([i \in 1..Len(PRODUCTS) |-> i],
                   LAMBDA i : \A j \in 1..(i - 1) : PRODUCTS[j][2] # PRODUCTS[i][2]),
         LAMBDA i : PRODUCTS[i][2])

best_alias(pid) ==
  LET mine == {i \in 1..Len(PRODUCTS) : PRODUCTS[i][2] = pid}
      longest == {i \in mine : \A j \in mine : Len(PRODUCTS[j][1]) <= Len(PRODUCTS[i][1])}
  IN PRODUCTS[CHOOSE i \in longest : \A j \in longest : i <= j][1]

id_to_name == MapSeq(product_ids, LAMBDA pid : <<pid, Title(best_alias(pid))>>)

(* lines 241-244 *)
cases ==
  Join(MapSeq(id_to_name,
         LAMBDA it : "WHEN investmenttypeid = " \o IntToStr(it[1]) \o " THEN '"
                     \o Replace(it[2], "'", "''") \o "'"), " ")

product_case_group == "CASE " \o cases \o " END"

product_case_select == product_case_group \o " AS product_name"

HasProductCase(entities) == InSeq("investmenttypeid", dimensions(entities)) /\ id_to_name # <<>>

(* lines 194-249 *)
select_parts(entities) ==
  LET metrics_sel == IF UsesMetricsList(entities) THEN metric_selects(entities)
                     ELSE <<metric_expr(entities)>>
      with_dims == dimensions(entities) \o metrics_sel
      with_bucket ==
        IF HasBucket(entities) /\ \A i \in 1..Len(with_dims) : ~Contains(with_dims[i], " AS month")
        THEN <<bucket_expr(entities) \o " AS " \o bucket_alias(entities)>> \o with_dims
        ELSE with_dims
  IN IF HasProductCase(entities)
     THEN <<"investmenttypeid", product_case_select>>
          \o SelectSeq(with_bucket, LAMBDA p : p # "investmenttypeid")
     ELSE with_bucket

(* the grouping were the product name grouped by its alias *)
group_by_alias(entities) ==
  LET dims == dimensions(entities)
      with_bucket == IF HasBucket(entities) /\ ~InSeq(bucket_expr(entities), dims)
                     THEN Append(dims, bucket_expr(entities)) ELSE dims
  IN IF HasProductCase(entities) /\ ~InSeq("product_name", with_bucket)
     THEN Append(with_bucket, "product_name")
     ELSE with_bucket

(* lines 203-249 *)
group_by(entities) ==
  LET dims == dimensions(entities)
      with_bucket == IF HasBucket(entities) /\ ~InSeq(bucket_expr(entities), dims)
                     THEN Append(dims, bucket_expr(entities)) ELSE dims
  IN IF HasProductCase(entities) /\ ~InSeq(product_case_group, with_bucket)
     THEN Append(with_bucket, product_case_group)
     ELSE with_bucket

(* repr() of a str and of a list of str / None, as the f-strings print them *)
PyReprStr(s) ==
  IF s = None THEN "None"
  ELSE IF Contains(s, "'") /\ ~Contains(s, "\"") THEN "\"" \o s \o "\""
  ELSE "'" \o Replace(s, "'", "\\'") \o "'"

PyReprList(items) == "[" \o Join(MapSeq(items, PyReprStr), ", ") \o "]"

PyReprIntList(items) == "[" \o Join(MapSeq(items, IntToStr), ", ") \o "]"

(* lines 262-275 *)
_build_explanation(metric, products, time_key, dims, filters, flags) ==
  LET filter_parts ==
        MapSeq(filters, LAMBDA f : "Filter " \o f[1] \o " in "
                 \o (IF f[2].scalar THEN PyStr(f[2].items[1]) ELSE PyReprList(f[2].items)))
      parts ==
           <<"Metric: " \o metric>>
        \o (IF products # <<>> THEN <<"Products: " \o PyReprIntList(products)>> ELSE <<>>)
        \o (IF Truthy(time_key) THEN <<"Time: " \o time_key>> ELSE <<>>)
        \o (IF dims # <<>> THEN <<"Grouped by: " \o Join(dims, ", ")>> ELSE <<>>)
        \o filter_parts
        \o (IF flags.shape = "dict" /\ flags.online_only THEN <<"Online payments only (paymentstatus=300)">> ELSE <<>>)
  IN Join(parts, "; ")

(* line 258: metric_key or metrics *)
explanation_metric(entities) ==
  IF Truthy(metric_key(entities)) THEN metric_key(entities) ELSE PyReprList(entities.metrics)

(* lines 251-256 *)
sql_text(entities) ==
     "SELECT " \o Join(select_parts(entities), ", ") \o " FROM sme_analytics.sme_leadbookingrevenue"
  \o (IF where_clauses(entities) # <<>>
      THEN " WHERE " \o Join(where_clauses(entities), " AND ") ELSE "")
  \o (IF group_by(entities) # <<>>
      THEN " GROUP BY " \o Join(group_by(entities), ", ") ELSE "")

(* lines 85-86: flags = entities.get("flags", {}) or {} followed by flags.get:
   a str has no get *)
BuildRaises(entities) == entities.intent = "metric_query" /\ entities.flags.shape = "str"

(* lines 33-259: the returned dict; sql and explanation are None when the
   dict has no such key; raised names the exception when the call returns
   nothing *)
build_sql(entities) ==
  IF entities.intent # "metric_query"
  THEN [intent |-> entities.intent, sql |-> None, explanation |-> None, raised |-> None]
  ELSE IF BuildRaises(entities)
  THEN [intent |-> None, sql |-> None, explanation |-> None, raised |-> "AttributeError"]
  ELSE [intent |-> "metric_query",
        sql |-> sql_text(entities),
        explanation |-> _build_explanation(explanation_metric(entities), entities.products,
                          entities.time.key, dimensions(entities), entities.filters,
                          entities.flags),
        raised |-> None]

(* lines 90-93: filters.pop of _fuzzy_value, the caller's dict after the call *)
entities_after_build(entities) ==
  IF entities.intent # "metric_query" \/ BuildRaises(entities) THEN entities
  ELSE [entities EXCEPT !.fuzzy = [kind |-> "absent", items |-> <<>>]]
-----------------------------------------------------------------------------
(* The intent record: the dict extract returns and build_sql reads.
   products is the list of ids; metrics, dimensions and ambiguities are lists,
   empty for a missing key or null; time holds None for a key it lacks;
   filters is the dict without its _fuzzy_value entry, which is fuzzy; flags
   has shape dict, none (null) or str (a text where a dict belongs). *)

NoFuzzy == [kind |-> "absent", items |-> <<>>]

NoTime == [key |-> None, start_date |-> None, end_date |-> None, granularity |-> None]

EmptyFlags ==
  [shape |-> "dict", online_only |-> FALSE, agent_active_summary |-> FALSE,
   agent_active_summary_full |-> FALSE]

NoAgent == [mode |-> None, scan |-> None, status_filters |-> <<>>]

DefaultEntities ==
  [intent |-> "metric_query", confidence |-> 95, products |-> <<>>, metric |-> None,
   metrics |-> <<>>, time |-> NoTime, dimensions |-> <<>>, filters |-> <<>>,
   fuzzy |-> NoFuzzy, flags |-> EmptyFlags, ambiguities |-> <<>>, agent |-> NoAgent]

-----------------------------------------------------------------------------
(* re operations used by src/nlp_extractor.py *)

SetMin(S) == CHOOSE x \in S : \A y \in S : x <= y

SetMax(S) == CHOOSE x \in S : \A y \in S : x >= y

RECURSIVE SortSet(_)
SortSet(S) == IF S = {} THEN <<>> ELSE <<SetMin(S)>> \o SortSet(S \ {SetMin(S)})

(* int(s) of a string of decimal digits *)
RECURSIVE ParseInt(_)
ParseInt(s) ==
  IF Len(s) = 0 THEN 0
  ELSE ParseInt(Slice(s, 1, Len(s) - 1)) * 10 + (IndexIn(Char(s, Len(s)), Digits) - 1)

(* the format spec :02d *)
Pad2(n) == IF n < 10 THEN "0" \o IntToStr(n) ELSE IntToStr(n)

WordAt(s, i) == i >= 1 /\ i <= Len(s) /\ IsWordChar(Char(s, i))

(* \b at the gap in front of position i *)
Boundary(s, i) == WordAt(s, i - 1) # WordAt(s, i)

AllIn(s, i, j, Class(_)) == \A k \in i..j : Class(Char(s, k))

(* the index after the longest run of Class characters that starts at i *)
RunEnd(s, i, Class(_)) ==
  Let({k \in i..Len(s) : ~Class(Char(s, k))},
      LAMBDA stops : IF stops = {} THEN (IF i > Len(s) THEN i ELSE Len(s) + 1)
                     ELSE SetMin(stops))

(* re.search(r"\b" + re.escape(a) + r"\b", text) finds a match *)
OccursAsWord(text, a) ==
  \E i \in 1..(Len(text) - Len(a) + 1) :
     MatchAt(text, i, a) /\ Boundary(text, i) /\ Boundary(text, i + Len(a))

AnyPhrase(text, phrases) == \E k \in 1..Len(phrases) : Contains(text, phrases[k])

TextOrEmpty(text) == IF text = None THEN "" ELSE text

-----------------------------------------------------------------------------
(* src/nlp_extractor.py: _augment_time_from_text *)

months ==
  << <<"january", 1>>, <<"jan", 1>>, <<"february", 2>>, <<"feb", 2>>,
     <<"march", 3>>, <<"mar", 3>>, <<"april", 4>>, <<"apr", 4>>, <<"may", 5>>,
     <<"june", 6>>, <<"jun", 6>>, <<"july", 7>>, <<"jul", 7>>,
     <<"august", 8>>, <<"aug", 8>>, <<"september", 9>>, <<"sept", 9>>, <<"sep", 9>>,
     <<"october", 10>>, <<"oct", 10>>, <<"november", 11>>, <<"nov", 11>>,
     <<"december", 12>>, <<"dec", 12>> >>

monthwise_signals ==
  <<"month wise", "monthwise", "month-wise", "month on month", "month-on-month",
    "month over month", "mom", "trend">>

monthwise(text_l) == AnyPhrase(text_l, monthwise_signals)

(* months.get(t), 0 standing for None *)
months_get(t) ==
  IF \E i \in 1..Len(months) : months[i][1] = t
  THEN months[CHOOSE i \in 1..Len(months) : months[i][1] = t][2]
  ELSE 0

(* process.extractOne(t, keys, score_cutoff=80) is the library's answer, or the
   import fails: cand is that answer, a key of months or None.  The result
   is the month number, 0 for None. *)
_resolve_month_token(token, cand) ==
  Let(Lower(Strip(token)),
      LAMBDA t : IF months_get(t) # 0 THEN months_get(t)
                 ELSE IF cand # None THEN months_get(cand)
                 ELSE 0)

(* months.get(m) or _resolve_month_token(m) *)
month_of(token, cand) ==
  IF months_get(token) # 0 THEN months_get(token)
  ELSE _resolve_month_token(token, cand)

IsLeap(year) == (year % 4 = 0 /\ year % 100 # 0) \/ year % 400 = 0

(* the first d of 31, 30, 29, 28 for which datetime(year, mm, d) exists *)
last_day(year, mm) ==
  IF mm \in {1, 3, 5, 7, 8, 10, 12} THEN 31
  ELSE IF mm \in {4, 6, 9, 11} THEN 30
  ELSE IF IsLeap(year) THEN 29 ELSE 28

(* int(ytxt), plus 2000 under 100 *)
year_of(ytxt) == Let(ParseInt(ytxt), LAMBDA year : IF year < 100 THEN 2000 + year ELSE year)

(* the group of the pattern for an optional 20 and two digits, matched at p;
   None when it does not match there *)
YearAt(s, p) ==
  IF MatchAt(s, p, "20") /\ p + 3 <= Len(s) /\ IsDigit(Char(s, p + 2)) /\ IsDigit(Char(s, p + 3))
  THEN Slice(s, p, p + 3)
  ELSE IF p + 1 <= Len(s) /\ IsDigit(Char(s, p)) /\ IsDigit(Char(s, p + 1))
  THEN Slice(s, p, p + 1)
  ELSE None

(* the pattern letters, spaces, to, spaces, letters, spaces, year matched with
   its first group starting at i.  Letters and white space exclude each other,
   so every run is the longest one.  e1, w1, w2, e2, w3 are the ends of the
   runs. *)
RangeMatch(s, i, e1, w1, w2, e2, w3) ==
  [ok |-> e1 > i /\ w1 > e1 /\ MatchAt(s, w1, "to") /\ w2 > w1 + 2 /\ e2 > w2 /\ w3 > e2
          /\ YearAt(s, w3) # None,
   m1 |-> Slice(s, i, e1 - 1),
   m2 |-> Slice(s, w2, e2 - 1),
   ytxt |-> YearAt(s, w3)]

RangeAt(s, i) ==
  Let(RunEnd(s, i, IsLetter), LAMBDA e1 :
  Let(RunEnd(s, e1, IsSpace), LAMBDA w1 :
  Let(RunEnd(s, w1 + 2, IsSpace), LAMBDA w2 :
  Let(RunEnd(s, w2, IsLetter), LAMBDA e2 :
  Let(RunEnd(s, e2, IsSpace), LAMBDA w3 : RangeMatch(s, i, e1, w1, w2, e2, w3))))))

NoMatch == [ok |-> FALSE, m1 |-> "", m2 |-> "", ytxt |-> None]

(* line 288: from or between, spaces, then the range pattern *)
FromRangeAt(s, p) ==
  IF MatchAt(s, p, "from") /\ RunEnd(s, p + 4, IsSpace) > p + 4
  THEN RangeAt(s, RunEnd(s, p + 4, IsSpace))
  ELSE IF MatchAt(s, p, "between") /\ RunEnd(s, p + 7, IsSpace) > p + 7
  THEN RangeAt(s, RunEnd(s, p + 7, IsSpace))
  ELSE NoMatch

(* re.search: the match at the leftmost position that has one *)
search_from_range(s) ==
  Let({p \in 1..Len(s) : FromRangeAt(s, p).ok},
      LAMBDA hits : IF hits = {} THEN NoMatch ELSE FromRangeAt(s, SetMin(hits)))

(* line 314 *)
search_range(s) ==
  Let({p \in 1..Len(s) : IsLetter(Char(s, p)) /\ RangeAt(s, p).ok},
      LAMBDA hits : IF hits = {} THEN NoMatch ELSE RangeAt(s, SetMin(hits)))

(* line 340: since, spaces, letters, then optionally spaces and a year *)
SinceMatch(s, p, w, e, w2) ==
  [ok |-> Boundary(s, p) /\ MatchAt(s, p, "since") /\ w > p + 5 /\ e > w,
   m1 |-> Slice(s, w, e - 1),
   m2 |-> "",
   ytxt |-> IF w2 > e THEN YearAt(s, w2) ELSE None]

SinceAt(s, p) ==
  Let(RunEnd(s, p + 5, IsSpace), LAMBDA w :
  Let(RunEnd(s, w, IsLetter), LAMBDA e :
  Let(RunEnd(s, e, IsSpace), LAMBDA w2 : SinceMatch(s, p, w, e, w2))))

search_since(s) ==
  Let({p \in 1..Len(s) : MatchAt(s, p, "since") /\ SinceAt(s, p).ok},
      LAMBDA hits : IF hits = {} THEN NoMatch ELSE SinceAt(s, SetMin(hits)))

(* line 374: a year 20dd standing as a word *)
YearWordAt(s, p) ==
  /\ Boundary(s, p) /\ MatchAt(s, p, "20") /\ p + 3 <= Len(s)
  /\ IsDigit(Char(s, p + 2)) /\ IsDigit(Char(s, p + 3)) /\ Boundary(s, p + 4)

search_year(s) ==
  Let({p \in 1..Len(s) : YearWordAt(s, p)},
      LAMBDA hits : IF hits = {} THEN None ELSE Slice(s, SetMin(hits), SetMin(hits) + 3))

date_str(year, mm, dd) == IntToStr(year) \o "-" \o Pad2(mm) \o "-" \o Pad2(dd)

(* lines 289-311 and 315-337: the body shared by the two range patterns, m
   the match; ok is false when a month is not resolved and the code falls
   through *)
range_fields(result, year, mm1, mm2, mw) ==
  IF mm1 # 0 /\ mm2 # 0
  THEN [ok |-> TRUE,
        time |-> [result EXCEPT !.start_date = date_str(year, mm1, 1),
                                !.end_date = date_str(year, mm2, last_day(year, mm2)),
                                !.granularity = IF mw THEN "month" ELSE @]]
  ELSE [ok |-> FALSE, time |-> result]

range_result(result, m, cand, mw) ==
  IF ~m.ok THEN [ok |-> FALSE, time |-> result]
  ELSE Let(year_of(m.ytxt), LAMBDA year :
       Let(month_of(m.m1, cand), LAMBDA mm1 :
       Let(month_of(m.m2, cand), LAMBDA mm2 : range_fields(result, year, mm1, mm2, mw))))

(* lines 340-371, m the match *)
since_fields(result, ytxt, mm, today, mw) ==
  IF mm # 0
  THEN [ok |-> TRUE,
        time |-> [result EXCEPT
                    !.start_date =
                        date_str(IF ytxt # None THEN year_of(ytxt)
                                 ELSE IF mm > today.month THEN today.year - 1 ELSE today.year,
                                 mm, 1),
                    !.end_date = date_str(today.year, today.month, today.day),
                    !.granularity = IF mw THEN "month" ELSE @,
                    !.key = None]]
  ELSE [ok |-> FALSE, time |-> result]

since_result(result, m, today, cand, mw) ==
  IF ~m.ok THEN [ok |-> FALSE, time |-> result]
  ELSE Let(month_of(m.m1, cand), LAMBDA mm : since_fields(result, m.ytxt, mm, today, mw))

(* lines 373-395, when no pattern gave a range: y the year found or None *)
year_result(text_l, result, y, today, mw) ==
  IF y # None /\ mw
  THEN [result EXCEPT !.start_date = date_str(ParseInt(y), 1, 1),
                      !.end_date = date_str(ParseInt(y), 12, 31),
                      !.granularity = "month", !.key = None]
  ELSE IF Contains(text_l, "this year")
  THEN [result EXCEPT !.start_date = date_str(today.year, 1, 1),
                      !.end_date = date_str(today.year, 12, 31),
                      !.granularity = IF mw THEN "month" ELSE @, !.key = None]
  ELSE result

(* lines 287-395 on the lower-cased text; mw is monthwise *)
augment_lower(text_l, result, today, cand, mw) ==
  Let(range_result(result, search_from_range(text_l), cand, mw), LAMBDA r1 :
    IF r1.ok THEN r1.time
    ELSE Let(range_result(result, search_range(text_l), cand, mw), LAMBDA r2 :
      IF r2.ok THEN r2.time
      ELSE Let(since_result(result, search_since(text_l), today, cand, mw), LAMBDA r3 :
        IF r3.ok THEN r3.time
        ELSE Let(search_year(text_l), LAMBDA y : year_result(text_l, result, y, today, mw)))))

(* time_obj is the dict the caller passes, NoTime for a value that is no dict *)
_augment_time_from_text(text, time_obj, today, cand) ==
  IF Truthy(time_obj.start_date) /\ Truthy(time_obj.end_date) THEN time_obj
  ELSE Let(Lower(TextOrEmpty(text)), LAMBDA text_l :
       Let(monthwise(text_l), LAMBDA mw : augment_lower(text_l, time_obj, today, cand, mw)))
-----------------------------------------------------------------------------
(* src/nlp_extractor.py: extract.

   The classifier's answer llm is [kind, error, draft]:
     kind exception   generate_content or response.text raises error
     kind not_json    json.loads raises
     kind not_dict    the JSON value is a list, a number, a string or null
     kind dict        the JSON object draft
   A draft gives every key the code reads.  products, time, flags and agent
   carry a shape: missing (no such key), null, or the JSON type of the value.
   A products item is [type, text], the JSON type and the text str() gives.
   The record extract returns is the one build_sql reads; the keys name,
   codes, fields of agent and explanation, order are not part of the model. *)

INTENTS == <<"metric_query", "feedback", "conversation", "clarification", "help", "agent_status">>

(* lines 139-140: the ids kept of the drafted products, or the TypeError of
   iterating an int *)
ProductsRaise(products) == products.shape = "int" /\ products.items # <<>>

ItemKept(item) == item.type \in {"int", "float", "str"} /\ AllDigits(item.text)

coerce_products(products) ==
  IF products.shape \in {"missing", "null"} THEN <<>>
  ELSE SortSet({ParseInt(products.items[i].text) :
                  i \in {j \in 1..Len(products.items) : ItemKept(products.items[j])}})

(* lines 168-174: the lower-cased aliases of a product id, in PRODUCTS order *)
id_to_aliases(pid) ==
  MapSeq(SelectSeq(PRODUCTS, LAMBDA item : item[2] = pid), LAMBDA item : Lower(item[1]))

(* lines 180-190 *)
found(text_l, pid) ==
  \E aliases \in {id_to_aliases(pid)} :
    \E k \in 1..Len(aliases) :
       aliases[k] # "" /\ Len(aliases[k]) >= 3 /\ OccursAsWord(text_l, aliases[k])

all_products_phrases ==
  <<"all products", "all subproducts", "across products", "overall products",
    "overall subproducts">>

(* the products were the drafted ids returned as they are *)
validated_products_unchecked(text, products) == products

(* lines 165-198 *)
validated_products(text, products) ==
  Let(Lower(TextOrEmpty(text)), LAMBDA text_l :
    IF AnyPhrase(text_l, all_products_phrases) THEN <<>>
    ELSE SelectSeq(products, LAMBDA pid : found(text_l, pid)))

-----------------------------------------------------------------------------
(* _maybe_detect_agent_status: the intent it leaves in the record *)

agent_status_phrases ==
  <<"agent status", "what is my agent", "what's my agent", "is my agent", "is agent",
    "what is agent doing", "on call", "idle", "busy", "available">>

NameChar(c) == IsLetter(c) \/ c = "." \/ c = "-" \/ IsSpace(c)

(* positions r..d-1 hold: white space, a group of 2 to 40 name characters,
   white space *)
SpacedName(t, r, d) ==
  /\ d - r >= 4
  /\ AllIn(t, r, d - 1, NameChar)
  /\ \E a \in 1..(d - r - 3) : \E b \in 1..(d - r - 2 - a) :
       /\ AllIn(t, r, r + a - 1, IsSpace)
       /\ AllIn(t, d - b, d - 1, IsSpace)
       /\ d - r - a - b <= 40

(* line 410, on the lower-cased text since the search ignores case *)
m_doing(t) ==
  \E p \in 1..Len(t) :
    /\ Boundary(t, p) /\ MatchAt(t, p, "what")
    /\ \E r \in {p + 6} \cup {RunEnd(t, p + 4, IsSpace) + 2} :
         /\ \/ (r = p + 6 /\ MatchAt(t, p + 4, "'s"))
            \/ (r > p + 6 /\ MatchAt(t, r - 2, "is"))
         /\ \E d \in r..Len(t) :
              MatchAt(t, d, "doing") /\ Boundary(t, d + 5) /\ SpacedName(t, r, d)

(* the alternatives that end the pattern of line 415, matched at d *)
FreeWordEnd(t, d) ==
  IF MatchAt(t, d, "free") THEN d + 4
  ELSE IF MatchAt(t, d, "busy") THEN d + 4
  ELSE IF MatchAt(t, d, "available") THEN d + 9
  ELSE IF MatchAt(t, d, "on")
  THEN Let(RunEnd(t, d + 2, IsSpace),
           LAMBDA c : IF c > d + 2 /\ MatchAt(t, c, "call") THEN c + 4 ELSE 0)
  ELSE 0

(* line 415 *)
m_is_free(t) ==
  \E p \in 1..Len(t) :
    /\ Boundary(t, p) /\ MatchAt(t, p, "is")
    /\ \E d \in (p + 2)..Len(t) :
         \E e \in {FreeWordEnd(t, d)} : e > 0 /\ Boundary(t, e) /\ SpacedName(t, p + 2, d)

(* line 420 *)
m_status_of(t) ==
  \E p \in 1..Len(t) :
    /\ Boundary(t, p) /\ MatchAt(t, p, "status")
    /\ \E o \in {RunEnd(t, p + 6, IsSpace)} :
          /\ o > p + 6 /\ MatchAt(t, o, "of")
          /\ \E x \in (o + 3)..Len(t) : \E y \in (x + 2)..(Len(t) + 1) :
               /\ AllIn(t, o + 2, x - 1, IsSpace)
               /\ y - x <= 40 /\ AllIn(t, x, y - 1, NameChar)
               /\ Boundary(t, y)

agent_status_trigger(text) ==
  \E t \in {Lower(TextOrEmpty(text))} :
    AnyPhrase(t, agent_status_phrases) \/ m_doing(t) \/ m_is_free(t) \/ m_status_of(t)

(* the record were the trigger to leave the drafted intent as it is *)
_maybe_detect_agent_status_off(text, data) == data

_maybe_detect_agent_status(text, data) ==
  IF agent_status_trigger(text) THEN [data EXCEPT !.intent = "agent_status"] ELSE data

-----------------------------------------------------------------------------
(* _maybe_request_agent_summary *)

agent_summary_phrases ==
  <<"agents active", "active agents", "how many agents", "agents online", "agents available">>

full_scan_words == <<"exact", "full", "complete", "all agents">>

(* data.get("flags") or {} *)
flags_or_empty(flags) == IF flags.shape = "none" THEN EmptyFlags ELSE flags

(* a value of flags that is a str takes no item: the TypeError is caught and
   the record returned as it was *)
_maybe_request_agent_summary(text, data) ==
  Let(Lower(TextOrEmpty(text)), LAMBDA t :
    IF ~AnyPhrase(t, agent_summary_phrases) THEN data
    ELSE IF data.flags.shape = "str" THEN data
    ELSE [data EXCEPT !.flags =
            [flags_or_empty(@) EXCEPT !.agent_active_summary = TRUE,
                                      !.agent_active_summary_full =
                                          IF AnyPhrase(t, full_scan_words) THEN TRUE ELSE @]])

-----------------------------------------------------------------------------
(* _apply_wise_group_by *)

WiseChar(c) == IsLetter(c) \/ IsSpace(c) \/ c \in {"&", ",", "-"}

GroupByChar(c) == IsLetter(c) \/ IsSpace(c) \/ c \in {",", "&", "/"}

(* what the split at a comma, and, an ampersand or a slash and the strip leave
   of a match: its text without the separators *)
token_text(m) ==
  Strip(Replace(Replace(Replace(Replace(m, "and", " "), ",", " "), "&", " "), "/", " "))

(* the start of the longest run of Class characters that ends in front of p *)
RunStart(s, p, Class(_)) ==
  Let({k \in 1..(p - 1) : ~Class(Char(s, k))},
      LAMBDA stops : IF stops = {} THEN 1 ELSE SetMax(stops) + 1)

(* lines 492-498: the group of the wise pattern for the word wise at p.  The
   group is lazy: it stops in front of a hyphen that precedes wise when it
   is not empty by then. *)
wise_match(t, p) ==
  Let(IF p > 2 /\ Char(t, p - 1) = "-"
      THEN Slice(t, RunStart(t, p - 1, WiseChar), p - 2) ELSE "",
      LAMBDA pre : IF pre # "" THEN pre ELSE Slice(t, RunStart(t, p, WiseChar), p - 1))

wise_token_at(t, p) ==
  MatchAt(t, p, "wise") /\ Boundary(t, p + 4) /\ token_text(wise_match(t, p)) # ""

(* lines 499-505: a match of the group by pattern that yields a token *)
group_by_token_at(t, p) ==
  /\ MatchAt(t, p, "group")
  /\ \E b \in {RunEnd(t, p + 5, IsSpace)} :
       /\ b > p + 5 /\ MatchAt(t, b, "by")
       /\ \E g \in {RunEnd(t, b + 2, IsSpace)} :
            g > b + 2 /\ token_text(Slice(t, g, RunEnd(t, g, GroupByChar) - 1)) # ""

has_tokens(text) ==
  \E t \in {Lower(TextOrEmpty(text))} :
    \E p \in 1..Len(t) : wise_token_at(t, p) \/ group_by_token_at(t, p)

(* Without a token the record is returned at line 508.  With one, line 523
   reads TABLE_SCHEMA, a name the module does not import (line 16 imports
   PRODUCTS and SQL_PATTERNS only): the NameError is caught at line 553 and the
   record returned.  dims and time_obj are copies, so nothing was written. *)
_apply_wise_group_by(text, data) ==
  IF ~has_tokens(text) THEN data ELSE data
-----------------------------------------------------------------------------
(* extract, lines 126-236.  confidence is in hundredths. *)

MISSING_CONFIDENCE == 0 - 1

DEFAULT_CONFIDENCE == 70

FALLBACK_CONFIDENCE == 30

Raised(msg) == [raised |-> TRUE, error |-> msg, data |-> DefaultEntities]

Returned(data) == [raised |-> FALSE, error |-> "", data |-> data]

(* lines 143-160: setdefault of each key, a value that is null stays null *)
coerce_flags(flags) ==
  IF flags.shape = "missing" THEN EmptyFlags
  ELSE IF flags.shape = "null" THEN [EmptyFlags EXCEPT !.shape = "none"]
  ELSE IF flags.shape = "str" THEN [EmptyFlags EXCEPT !.shape = "str"]
  ELSE [EmptyFlags EXCEPT !.online_only = flags.online_only]

coerce_agent(agent) ==
  IF agent.shape = "dict"
  THEN [mode |-> agent.mode, scan |-> agent.scan, status_filters |-> agent.status_filters]
  ELSE NoAgent

(* line 163: data.get("time") or {}, and line 241 for a value that is no dict *)
time_arg(time) ==
  IF time.shape = "dict"
  THEN [key |-> time.key, start_date |-> time.start_date, end_date |-> time.end_date,
        granularity |-> time.granularity]
  ELSE NoTime

(* lines 135-160 *)
coerced(draft) ==
  [intent |-> IF InSeq(draft.intent, INTENTS) THEN draft.intent ELSE "metric_query",
   confidence |-> IF draft.confidence = MISSING_CONFIDENCE THEN DEFAULT_CONFIDENCE
                  ELSE draft.confidence,
   products |-> coerce_products(draft.products),
   metric |-> draft.metric,
   metrics |-> draft.metrics,
   time |-> time_arg(draft.time),
   dimensions |-> draft.dimensions,
   filters |-> draft.filters,
   fuzzy |-> draft.fuzzy,
   flags |-> coerce_flags(draft.flags),
   ambiguities |-> draft.ambiguities,
   agent |-> coerce_agent(draft.agent)]

(* lines 208-212 *)
upper_status_filters(data) ==
  [data EXCEPT !.agent.status_filters = MapSeq(SelectSeq(@, Truthy), Upper)]

(* lines 214-221: ok is false when flags is a str, which takes no item *)
legacy_flags(data) ==
  IF data.agent.mode # "summary" /\ data.agent.scan # "full" THEN [ok |-> TRUE, data |-> data]
  ELSE IF data.flags.shape = "str" THEN [ok |-> FALSE, data |-> data]
  ELSE [ok |-> TRUE,
        data |-> [data EXCEPT !.flags =
                    [flags_or_empty(@) EXCEPT
                       !.agent_active_summary = IF data.agent.mode = "summary" THEN TRUE ELSE @,
                       !.agent_active_summary_full = IF data.agent.scan = "full" THEN TRUE ELSE @]]]

(* lines 135-222: the steps on the parsed dict, each on the value the one
   before it left *)
post_process(user_text, draft, today, cand) ==
  Let(coerced(draft), LAMBDA d0 :
  Let([d0 EXCEPT !.time = _augment_time_from_text(user_text, @, today, cand)], LAMBDA d1 :
  Let([d1 EXCEPT !.products = validated_products(user_text, @)], LAMBDA d2 :
  Let(_maybe_detect_agent_status(user_text, d2), LAMBDA d3 :
  Let(_maybe_request_agent_summary(user_text, d3), LAMBDA d4 :
  Let(_apply_wise_group_by(user_text, d4), LAMBDA d5 :
  Let(upper_status_filters(d5), LAMBDA d6 :
  Let(legacy_flags(d6), LAMBDA d7 :
    IF d7.ok THEN Returned(d7.data)
    ELSE Raised("'str' object does not support item assignment")))))))))

(* lines 127-222, the body of the try *)
extract_try(user_text, llm, today, cand) ==
  IF llm.kind = "exception" THEN Raised(llm.error)
  ELSE IF llm.kind = "not_json" THEN Raised("Expecting value: line 1 column 1 (char 0)")
  ELSE IF llm.kind = "not_dict" THEN Raised("'list' object has no attribute 'get'")
  ELSE IF ProductsRaise(llm.draft.products) THEN Raised("'int' object is not iterable")
  ELSE post_process(user_text, llm.draft, today, cand)

(* lines 224-236, the dict of the except branch *)
fallback(msg) ==
  [intent |-> "metric_query", confidence |-> FALLBACK_CONFIDENCE, products |-> <<>>,
   metric |-> None, metrics |-> <<>>, time |-> NoTime, dimensions |-> <<>>,
   filters |-> <<>>, fuzzy |-> NoFuzzy, flags |-> EmptyFlags,
   ambiguities |-> <<"Extractor error: " \o msg>>, agent |-> NoAgent]

(* the outcome were the try without its except branch *)
extract_unhandled(user_text, llm, today, cand) == extract_try(user_text, llm, today, cand)

(* lines 32-236: the outcome of one call; raised tells an exception that
   leaves extract *)
extract(user_text, llm, today, cand) ==
  Let(extract_try(user_text, llm, today, cand),
      LAMBDA r : IF r.raised THEN Returned(fallback(r.error)) ELSE r)
-----------------------------------------------------------------------------
(* src/database.py: SimpleDatabase *)

CACHE_TTL == 300

(* hashlib.md5(sql.encode()).hexdigest(): the digest of the text, taken to
   differ for texts that differ *)
_get_cache_key(sql) == <<"md5", sql>>

(* lines 35-37, now being time.time() *)
_is_cache_valid(timestamp, now) == now - timestamp < CACHE_TTL

dangerous == <<"DROP", "DELETE", "INSERT", "UPDATE", "ALTER", "CREATE", "TRUNCATE">>

(* the gateway's policy were it the SELECT test alone *)
_validate_sql_select_only(sql) == StartsWith(Strip(Upper(sql)), "SELECT")

(* lines 39-60 *)
_validate_sql(sql) ==
  Let(Strip(Upper(sql)), LAMBDA sql_upper :
    IF ~StartsWith(sql_upper, "SELECT") THEN FALSE
    ELSE IF \E k \in 1..Len(dangerous) : Contains(sql_upper, dangerous[k]) THEN FALSE
    ELSE IF ~Contains(Lower(sql), "sme_analytics.sme_leadbookingrevenue") THEN FALSE
    ELSE TRUE)

(* lines 18-29: the engine of a connection string; created is false when
   create_engine raises *)
_create_engine(connection_string, created) ==
  IF ~Truthy(connection_string) THEN None
  ELSE IF created THEN "engine"
  ELSE None

(* the outcome of one call of run_query: the exception it raises or the table
   it returns, whether pd.read_sql was called and whether the cache was looked
   into, and the cache it leaves *)
Outcome(raised, message, returned, engine_called, cache_read, cache) ==
  [raised |-> raised, message |-> message, returned |-> returned,
   engine_called |-> engine_called, cache_read |-> cache_read, cache |-> cache]

InCache(cache, key) == \E i \in 1..Len(cache) : cache[i][1] = key

CacheGet(cache, key) == cache[CHOOSE i \in 1..Len(cache) : cache[i][1] = key][2]

(* self.query_cache[key] = value on a dict kept as its items *)
CachePut(cache, key, value) ==
  IF InCache(cache, key)
  THEN [i \in 1..Len(cache) |-> IF cache[i][1] = key THEN <<key, value>> ELSE cache[i]]
  ELSE Append(cache, <<key, value>>)

(* lines 79-99: read is what pd.read_sql does, a table or an exception *)
execute(sql, use_cache, engine, cache, now, read, cache_read) ==
  IF engine = None
  THEN Outcome("ConnectionError", "Database engine not available", None, FALSE, cache_read, cache)
  ELSE IF read.raised
  THEN Outcome("Exception", read.message, None, TRUE, cache_read, cache)
  ELSE Outcome(None, "", read.table, TRUE, cache_read,
               IF use_cache
               THEN CachePut(cache, _get_cache_key(sql), [table |-> read.table, timestamp |-> now])
               ELSE cache)

(* what run_query tests of a statement before it looks into the cache: lines
   64-69 *)
Statement(sql) ==
  [sql |-> sql, empty |-> ~Truthy(sql) \/ Strip(sql) = "", valid |-> _validate_sql(sql)]

(* lines 62-99, of a statement and the outcome of its tests *)
run_statement(st, use_cache, engine, cache, now, read) ==
  IF st.empty
  THEN Outcome("ValueError", "Empty SQL query", None, FALSE, FALSE, cache)
  ELSE IF ~st.valid
  THEN Outcome("ValueError", "SQL query failed security validation", None, FALSE, FALSE, cache)
  ELSE IF use_cache /\ InCache(cache, _get_cache_key(st.sql))
  THEN IF _is_cache_valid(CacheGet(cache, _get_cache_key(st.sql)).timestamp, now)
       THEN Outcome(None, "", CacheGet(cache, _get_cache_key(st.sql)).table, FALSE, TRUE, cache)
       ELSE execute(st.sql, use_cache, engine, cache, now, read, TRUE)
  ELSE execute(st.sql, use_cache, engine, cache, now, read, use_cache)

(* lines 62-99 *)
run_query(sql, use_cache, engine, cache, now, read) ==
  run_statement(Statement(sql), use_cache, engine, cache, now, read)
-----------------------------------------------------------------------------
(* Inputs of the model *)

MaxMetrics == 2
MaxDims == 2
MaxTokens == 6

SeqsUpTo(S, n) == UNION {[1..k -> S] : k \in 0..n}

RECURSIVE PickFrom(_, _, _)
PickFrom(seq, I, i) ==
  IF i > Len(seq) THEN <<>>
  ELSE (IF i \in I THEN <<seq[i]>> ELSE <<>>) \o PickFrom(seq, I, i + 1)

(* the sub-lists of seq (order kept) of at most n elements *)
SubListsUpTo(seq, n) ==
  {PickFrom(seq, I, 1) : I \in {J \in SUBSET (1..Len(seq)) : Cardinality(J) <= n}}

MetricInputs == {None, "bookings", "revenue", "unknown_metric"}

MetricsInputs == SeqsUpTo({"bookings", "revenue", "unknown_metric"}, MaxMetrics)

TimeInputs ==
  [key : {None, "last week", "next decade"},
   start_date : {None, "2025-01-01"},
   end_date : {None, "2025-08-31"},
   granularity : {None, "month", "day"}]

DimensionInputs ==
  SeqsUpTo({"city", "investmenttypeid", "contact_person_name", "unknown_col"}, MaxDims)

FilterColumnInputs ==
  {"booking_status", "referralid", "contact_person_name", "unknown_col", ""}

TokenOrder ==
  <<"IssuedBusiness", "not WipBusiness", "notbooked", "0", "<>5", "null", "not null", None>>

FilterValueInputs ==
       {[scalar |-> FALSE, items |-> l] : l \in SubListsUpTo(TokenOrder, MaxTokens)}
  \cup {[scalar |-> TRUE, items |-> <<t>>] : t \in {"Not Null", " null ", "Updated", "O'Brien", None}}

FuzzyInputs ==
  {NoFuzzy,
   [kind |-> "none", items |-> <<>>],
   [kind |-> "str", items |-> <<"Tata's">>],
   [kind |-> "str", items |-> <<"">>],
   [kind |-> "list", items |-> <<"Created Leads", "x">>],
   [kind |-> "dict", items |-> <<"hdfc", "ergo">>]}

ProductInputs == {<<>>, <<5>>, <<1, 19>>}

MetricFamily ==
  {[DefaultEntities EXCEPT !.metric = m, !.metrics = ms, !.time = t] :
     m \in MetricInputs, ms \in MetricsInputs, t \in TimeInputs}

DimensionFamily ==
  {[DefaultEntities EXCEPT !.dimensions = d, !.metrics = ms, !.products = p,
                           !.time = [NoTime EXCEPT !.granularity = g]] :
     d \in DimensionInputs, ms \in {<<>>, <<"bookings", "revenue">>},
     p \in ProductInputs, g \in {None, "month", "week"}}

FilterFamily ==
  {[DefaultEntities EXCEPT !.filters = <<<<c, v>>>>, !.fuzzy = fz] :
     c \in FilterColumnInputs, v \in FilterValueInputs, fz \in {NoFuzzy, [kind |-> "str", items |-> <<"Tata's">>]}}

TwoFilterFamily ==
  {[DefaultEntities EXCEPT !.filters = <<<<"booking_status", v1>>, <<c2, v2>>>>,
                           !.flags = [EmptyFlags EXCEPT !.online_only = o]] :
     c2 \in {"mkt_category", "contact_person_name"},
     v1 \in {[scalar |-> FALSE, items |-> <<"IssuedBusiness", "not WipBusiness">>]},
     v2 \in {[scalar |-> FALSE, items |-> <<"CRM", "not 0">>], [scalar |-> TRUE, items |-> <<"not null">>]},
     o \in BOOLEAN}

FuzzyFamily ==
  {[DefaultEntities EXCEPT !.fuzzy = fz, !.filters = f, !.products = p] :
     fz \in FuzzyInputs,
     f \in {<<>>, <<<<"", [scalar |-> TRUE, items |-> <<"x">>]>>>>,
            <<<<"unknown_col", [scalar |-> TRUE, items |-> <<"x">>]>>>>},
     p \in ProductInputs}

IntentFamily ==
  {[DefaultEntities EXCEPT !.intent = i, !.fuzzy = fz] :
     i \in {"feedback", "conversation", "clarification", "help", "agent_status"},
     fz \in {NoFuzzy, [kind |-> "str", items |-> <<"Tata's">>]}}

FlagsFamily ==
  {[DefaultEntities EXCEPT !.flags = [EmptyFlags EXCEPT !.shape = s], !.intent = i] :
     s \in {"none", "str"}, i \in {"metric_query", "help"}}

EntitiesInputs ==
  MetricFamily \cup DimensionFamily \cup FilterFamily \cup TwoFilterFamily
  \cup FuzzyFamily \cup IntentFamily \cup FlagsFamily

-----------------------------------------------------------------------------
(* Inputs of extract: the user's text, the classifier's answer, the clock and
   the month the fuzzy matcher proposes *)

MaxProducts == 2

(* texts that name products, or only seem to *)
ProductTexts ==
  {"revenue for ghi and wc product wise",
   "fire insurance bookings this month",
   "all products leads this year",
   "firewall leads for marines",
   "between feb to feb 24 marine"}

(* texts with a range, a since clause, a year or a named period *)
TimeTexts ==
  {"Leads from Jan to Aug 2025 month wise",
   "between feb to feb 24 marine",
   "bookings since march",
   "leads since dec 23 group by city",
   "leads trend 2025",
   "jan to agust 24 revenue",
   "fire insurance bookings this month"}

(* texts about agents *)
AgentTexts ==
  {"agents active now for marine",
   "how many agents full list",
   "leads agent wise last week",
   "what is prityush doing",
   "Is Ravi on  call",
   "status of ravi"}

TextInputs == ProductTexts \cup TimeTexts \cup AgentTexts \cup {"", None}

TodayInputs == {[year |-> 2026, month |-> 11, day |-> 3], [year |-> 2024, month |-> 2, day |-> 29]}

CandInputs == {None, "august"}

DefaultToday == [year |-> 2026, month |-> 11, day |-> 3]

IntItem(text) == [type |-> "int", text |-> text]

ProductItemOrder ==
  <<IntItem("1"), IntItem("19"), IntItem("5"), [type |-> "str", text |-> "13"],
    [type |-> "str", text |-> "fire"]>>

ProductDrafts ==
       {[shape |-> "list", items |-> l] : l \in SubListsUpTo(ProductItemOrder, MaxProducts)}
  \cup {[shape |-> "list", items |-> <<IntItem("19"), IntItem("1"), IntItem("19")>>],
        [shape |-> "list", items |-> <<[type |-> "float", text |-> "5.0"], IntItem("-1")>>],
        [shape |-> "missing", items |-> <<>>],
        [shape |-> "null", items |-> <<>>],
        [shape |-> "int", items |-> <<IntItem("5")>>],
        [shape |-> "str", items |-> <<[type |-> "str", text |-> "1"], [type |-> "str", text |-> "3"]>>]}

DraftTime(shape, key, start_date, end_date, granularity) ==
  [shape |-> shape, key |-> key, start_date |-> start_date, end_date |-> end_date,
   granularity |-> granularity]

TimeDrafts ==
  {DraftTime("missing", None, None, None, None),
   DraftTime("null", None, None, None, None),
   DraftTime("str", None, None, None, None),
   DraftTime("dict", "last week", None, None, None),
   DraftTime("dict", "last week", "2025-01-01", "2025-08-31", None),
   DraftTime("dict", "this month", "2025-01-01", None, "week"),
   DraftTime("dict", None, None, None, "week")}

FlagDrafts ==
  {[shape |-> "missing", online_only |-> FALSE],
   [shape |-> "null", online_only |-> FALSE],
   [shape |-> "str", online_only |-> FALSE],
   [shape |-> "dict", online_only |-> FALSE],
   [shape |-> "dict", online_only |-> TRUE]}

DraftAgent(shape, mode, scan, status_filters) ==
  [shape |-> shape, mode |-> mode, scan |-> scan, status_filters |-> status_filters]

AgentDrafts ==
  {DraftAgent("missing", None, None, <<>>),
   DraftAgent("str", None, None, <<>>),
   DraftAgent("dict", None, None, <<"busy", "", "On Call", None>>),
   DraftAgent("dict", "summary", "sample", <<>>),
   DraftAgent("dict", "single", "full", <<>>)}

DefaultDraft ==
  [intent |-> "metric_query", confidence |-> 95,
   products |-> [shape |-> "list", items |-> <<>>],
   metric |-> "leads", metrics |-> <<>>,
   time |-> DraftTime("dict", None, None, None, None),
   dimensions |-> <<>>, filters |-> <<>>, fuzzy |-> NoFuzzy,
   flags |-> [shape |-> "dict", online_only |-> FALSE],
   ambiguities |-> <<>>,
   agent |-> DraftAgent("dict", None, None, <<>>)]

Answer(draft) == [kind |-> "dict", error |-> "", draft |-> draft]

Failure(kind, error) == [kind |-> kind, error |-> error, draft |-> DefaultDraft]

FailureInputs ==
  {Failure("exception", "429 quota exceeded"), Failure("exception", ""),
   Failure("not_json", ""), Failure("not_dict", "")}

ProductAnswers == {Answer([DefaultDraft EXCEPT !.products = p]) : p \in ProductDrafts}

TimeAnswers ==
       {Answer([DefaultDraft EXCEPT !.time = t]) : t \in TimeDrafts}
  \cup {Answer([DefaultDraft EXCEPT !.time = t, !.metric = "bookings"]) :
          t \in {DraftTime("dict", "last week", None, None, None),
                 DraftTime("dict", None, None, None, "week")}}

FlagAnswers ==
       {Answer([DefaultDraft EXCEPT !.flags = f]) : f \in FlagDrafts}
  \cup {Answer([DefaultDraft EXCEPT !.flags = f, !.agent = a]) :
          f \in {ff \in FlagDrafts : ff.shape \in {"missing", "null", "str"}},
          a \in {aa \in AgentDrafts : aa.mode # None}}
  \cup {Answer([DefaultDraft EXCEPT !.agent = a]) : a \in AgentDrafts}

IntentAnswers ==
  {Answer([DefaultDraft EXCEPT !.intent = i, !.confidence = c]) :
     i \in {None, "metric_query", "conversation", "agent_status", "smalltalk"},
     c \in {MISSING_CONFIDENCE, 40}}

FieldAnswers ==
  {Answer([DefaultDraft EXCEPT !.dimensions = d, !.filters = f, !.fuzzy = fz,
                               !.ambiguities = a]) :
     d \in {<<>>, <<"city", "contact_person_name">>},
     f \in {<<>>, <<<<"booking_status", [scalar |-> FALSE, items |-> <<"IssuedBusiness", "not WipBusiness">>]>>>>},
     fz \in {NoFuzzy, [kind |-> "str", items |-> <<"Tata's">>]},
     a \in {<<>>, <<"which year?">>}}

(* the calls an Extract step chooses from: [text, llm, today, cand] *)
Call(text, llm, today, cand) == [text |-> text, llm |-> llm, today |-> today, cand |-> cand]

ExtractInputs ==
       {Call(t, a, DefaultToday, None) : t \in ProductTexts, a \in ProductAnswers}
  \cup {Call(t, a, DefaultToday, None) : t \in TimeTexts, a \in TimeAnswers}
  \cup {Call(t, a, d, c) :
          t \in {"bookings since march", "leads since dec 23 group by city",
                 "between feb to feb 24 marine", "jan to agust 24 revenue"},
          a \in {Answer(DefaultDraft),
                 Answer([DefaultDraft EXCEPT !.time = DraftTime("dict", "last week", None, None, None)])},
          d \in TodayInputs, c \in CandInputs}
  \cup {Call(t, a, DefaultToday, None) :
          t \in {"agents active now for marine", "how many agents full list",
                 "leads agent wise last week", "what is prityush doing"},
          a \in FlagAnswers}
  \cup {Call(t, a, DefaultToday, None) :
          t \in {"Is Ravi on  call", "status of ravi", "leads trend 2025", None},
          a \in IntentAnswers}
  \cup {Call(t, a, DefaultToday, None) :
          t \in {"leads since dec 23 group by city", ""}, a \in FieldAnswers}
  \cup {Call(t, a, DefaultToday, None) : t \in TextInputs, a \in FailureInputs}

-----------------------------------------------------------------------------
(* State *)

VARIABLES
  pc,           \* idle, extracted (extract has returned), built (build_sql has)
  user_text,    \* the text extract was called with
  llm,          \* the classifier's answer to that call
  today,        \* the date of the call
  cand,         \* what the fuzzy month matcher answers during the call
  extracted,    \* the outcome of extract
  build_arg,    \* the entities dict as it was passed to build_sql
  entities,     \* the same dict object after the call
  result,       \* the dict build_sql returned
  engine,       \* SimpleDatabase.engine, None without a connection
  query_cache,  \* SimpleDatabase.query_cache, its items in insertion order
  clock,        \* time.time(), in seconds
  db_call,      \* the call of run_query that has just returned or raised
  USER_SESSIONS,           \* main.USER_SESSIONS: user id -> the mode of the session
  USER_QUERY_CACHE,        \* main.USER_QUERY_CACHE: user id -> the results marked correct
  query_results,           \* the files query_results/<query_id>.json
  WEB_USER_LAST_QUERY_ID,  \* main.WEB_USER_LAST_QUERY_ID
  turn,         \* the chat event handled last: what it called and what it said
  _data,        \* distinct_cache._data
  _last_loaded, \* distinct_cache._last_loaded
  _prewarming,  \* distinct_cache._prewarming
  _lock,        \* distinct_cache._lock: the worker that holds it, 0 when free
  snapshot,     \* the file at distinct_cache.cache_path
  wall,         \* time.time() as the cache reads it, in seconds
  callers,      \* the threads that call get() and prewarm_async()
  workers,      \* the threads of _run, in the order they were started
  refreshed,    \* the refresh that swapped its fresh in last: when _save ran, and the fresh
  queried_by,   \* the threads that ran the queries of _build_fresh
  frames,       \* the DataFrame objects: object id -> the table it holds
  held,         \* the ids of the objects callers of run_query were handed
  handed,       \* the call of run_query on the objects that returned last
  feedback_log,     \* business_logic_manager.feedback_log
  business_logics,  \* business_logic_manager.business_logics
  feedback_file,    \* feedback.json
  logic_file,       \* business_logic.json
  fb_time,          \* time.time() as the manager reads it, in half seconds
  fb_call,          \* the call on the manager that returned last
  fb_threads,       \* the handlers that are calling the manager, each with its position
  rp_call,             \* the call of resolve_products that returned last
  subscriptions,       \* subscription_manager.subscriptions
  subscriptions_file,  \* subscriptions.json
  sub_time,            \* time.time() as the subscription manager reads it, in half seconds
  sub_count,           \* the number of calls of add_subscription so far
  sub_call             \* the call on the subscription manager that returned last

extract_vars == <<user_text, llm, today, cand, extracted>>

build_vars == <<build_arg, entities, result>>

turn_vars == <<pc, user_text, llm, today, cand, extracted, build_arg, entities, result>>

db_vars == <<engine, query_cache, clock, db_call>>

chat_vars == <<USER_SESSIONS, USER_QUERY_CACHE, query_results, WEB_USER_LAST_QUERY_ID, turn>>

dc_vars == <<_data, _last_loaded, _prewarming, _lock, snapshot, wall, callers, workers, refreshed,
             queried_by>>

frame_vars == <<frames, held, handed>>

fb_vars == <<feedback_log, business_logics, feedback_file, logic_file, fb_time, fb_call,
             fb_threads>>

rp_vars == <<rp_call>>

sub_vars == <<subscriptions, subscriptions_file, sub_time, sub_count, sub_call>>

more_vars == <<frame_vars, fb_vars, rp_vars, sub_vars>>

rest_vars == <<chat_vars, dc_vars, more_vars>>

NoResult == [intent |-> None, sql |-> None, explanation |-> None, raised |-> None]

NoCall == Call("", Answer(DefaultDraft), DefaultToday, None)

NoDbCall ==
  [status |-> "none", sql |-> None, use_cache |-> FALSE, cache_before |-> <<>>,
   outcome |-> Outcome(None, "", None, FALSE, FALSE, <<>>)]

TurnInit ==
  /\ pc = "idle"
  /\ user_text = NoCall.text
  /\ llm = NoCall.llm
  /\ today = NoCall.today
  /\ cand = NoCall.cand
  /\ extracted = Returned(DefaultEntities)
  /\ build_arg = DefaultEntities
  /\ entities = DefaultEntities
  /\ result = NoResult

(* db = SimpleDatabase(PRESTO_CONNECTION) where the environment sets no
   connection string *)
DbInit ==
  /\ engine = _create_engine(None, FALSE)
  /\ query_cache = <<>>
  /\ clock = 0
  /\ db_call = NoDbCall

(* entities = nlp_extractor.extract(text): main.py lines 165 and 805 *)
Extract ==
  /\ pc = "idle"
  /\ \E c \in ExtractInputs :
       /\ user_text' = c.text
       /\ llm' = c.llm
       /\ today' = c.today
       /\ cand' = c.cand
       /\ extracted' = extract(c.text, c.llm, c.today, c.cand)
  /\ pc' = "extracted"
  /\ UNCHANGED build_vars
  /\ UNCHANGED <<db_vars, rest_vars>>

(* sql_payload = build_sql(entities) on the record extract returned:
   main.py line 806 *)
BuildExtracted ==
  /\ pc = "extracted"
  /\ ~extracted.raised
  /\ build_arg' = extracted.data
  /\ result' = build_sql(extracted.data)
  /\ entities' = entities_after_build(extracted.data)
  /\ pc' = "built"
  /\ UNCHANGED extract_vars
  /\ UNCHANGED <<db_vars, rest_vars>>

(* one call result = build_sql(entities) on a record of the caller's making *)
Build ==
  /\ pc = "idle"
  /\ \E e \in EntitiesInputs :
       /\ build_arg' = e
       /\ result' = build_sql(e)
       /\ entities' = entities_after_build(e)
  /\ pc' = "built"
  /\ UNCHANGED extract_vars
  /\ UNCHANGED <<db_vars, rest_vars>>

(* the turn ends: the caller drops the record and the result *)
Done ==
  /\ pc \in {"extracted", "built"}
  /\ pc' = "idle"
  /\ user_text' = NoCall.text
  /\ llm' = NoCall.llm
  /\ today' = NoCall.today
  /\ cand' = NoCall.cand
  /\ extracted' = Returned(DefaultEntities)
  /\ build_arg' = DefaultEntities
  /\ entities' = DefaultEntities
  /\ result' = NoResult
  /\ UNCHANGED <<db_vars, rest_vars>>

-----------------------------------------------------------------------------
(* Calls on the database object *)

MaxPeriods == 2

ConnectionInputs == {None, "", "presto://warehouse:8080/hive"}

SqlInputs ==
  {None, "", "   ",
   sql_text(DefaultEntities),
   sql_text([DefaultEntities EXCEPT
               !.filters = <<<<"booking_status", [scalar |-> TRUE, items |-> <<"Updated">>]>>>>]),
   "  select city from SME_ANALYTICS.SME_LEADBOOKINGREVENUE ",
   "DELETE FROM sme_analytics.sme_leadbookingrevenue",
   "SELECT 1 FROM sme_analytics.sme_leadbookingrevenue; drop table sme_analytics.sme_leadbookingrevenue",
   "SELECT city FROM sme_analytics.leads",
   "WITH t AS (SELECT 1) SELECT * FROM sme_analytics.sme_leadbookingrevenue"}

(* what pd.read_sql does when it is called *)
ReadInputs ==
  {[raised |-> FALSE, message |-> "", table |-> "rows"],
   [raised |-> TRUE, message |-> "presto: query failed", table |-> None]}

(* SimpleDatabase(connection_string): lines 14-16 *)
NewDatabase ==
  /\ db_call.status = "none"
  /\ \E cs \in ConnectionInputs, created \in BOOLEAN :
       engine' = _create_engine(cs, created)
  /\ query_cache' = <<>>
  /\ UNCHANGED <<clock, db_call>>
  /\ UNCHANGED <<turn_vars, rest_vars>>

(* db.run_query(sql, use_cache), until it returns or raises *)
RunQuery ==
  /\ db_call.status = "none"
  /\ \E sql \in SqlInputs, use_cache \in BOOLEAN, read \in ReadInputs :
       \E o \in {run_query(sql, use_cache, engine, query_cache, clock, read)} :
         /\ db_call' = [status |-> "returned", sql |-> sql, use_cache |-> use_cache,
                        cache_before |-> query_cache, outcome |-> o]
         /\ query_cache' = o.cache
  /\ UNCHANGED <<engine, clock>>
  /\ UNCHANGED <<turn_vars, rest_vars>>

(* the caller has the table or the exception *)
DbReturn ==
  /\ db_call.status = "returned"
  /\ db_call' = NoDbCall
  /\ UNCHANGED <<engine, query_cache, clock>>
  /\ UNCHANGED <<turn_vars, rest_vars>>

(* time passes between two calls *)
Tick ==
  /\ db_call.status = "none"
  /\ \E d \in {CACHE_TTL - 1, CACHE_TTL} :
       /\ clock + d <= MaxPeriods * CACHE_TTL
       /\ clock' = clock + d
  /\ UNCHANGED <<engine, query_cache, db_call>>
  /\ UNCHANGED <<turn_vars, rest_vars>>

(* db.clear_cache(): lines 101-104 *)
ClearCache ==
  /\ db_call.status = "none"
  /\ query_cache' = <<>>
  /\ UNCHANGED <<engine, clock, db_call>>
  /\ UNCHANGED <<turn_vars, rest_vars>>

-----------------------------------------------------------------------------
(* src/masking_service.py and SimpleBot.execute_sql_query of src/main.py.
   A table is its column names and its rows of cells; a cell is the text
   str() gives of the value. The pictographs and the code marks of the
   messages are left out. *)

Table(columns, rows) == [columns |-> columns, rows |-> rows]

NoTable == Table(<<>>, <<>>)

(* df.empty *)
IsEmptyTable(df) == df.rows = <<>> \/ df.columns = <<>>

(* the values the warehouse holds of a column, and the ones Faker makes up *)
WarehouseCities == <<"Pune", "Agra">>

FakerCity == "Port Faker"

FakerName == "Jane Doe"

FakerWord == "lorem"

(* hashlib.sha256(str(value).encode()).hexdigest()[:12]: the digest of the
   text, which is not the text *)
_hash_value(value) == "sha256:" \o value

(* lines 39-55, of a value that is not NaN *)
_mask_with_faker(value, column_name) ==
  Let(Lower(column_name), LAMBDA c :
    IF Contains(c, "name") THEN FakerName
    ELSE IF Contains(c, "email") THEN "jane@example.org"
    ELSE IF Contains(c, "phone") THEN "555-0100"
    ELSE IF Contains(c, "address") \/ Contains(c, "city") \/ Contains(c, "state") THEN FakerCity
    ELSE IF Contains(c, "company") THEN "Doe Ltd"
    ELSE FakerWord)

SchemaEntry(column_name) ==
  TABLE_SCHEMA_ITEMS[CHOOSE i \in 1..Len(TABLE_SCHEMA_ITEMS) : TABLE_SCHEMA_ITEMS[i].name = column_name]

(* lines 22-27: the column is one the schema tells to mask *)
IsMaskedColumn(column_name) ==
  /\ InSchema(column_name)
  /\ SchemaEntry(column_name).pii_level # "none"
  /\ SchemaEntry(column_name).masking_strategy # "none"

(* lines 30-35 *)
mask_value(value, column_name) ==
  IF ~IsMaskedColumn(column_name) THEN value
  ELSE IF SchemaEntry(column_name).masking_strategy = "faker" THEN _mask_with_faker(value, column_name)
  ELSE IF SchemaEntry(column_name).masking_strategy = "hash" THEN _hash_value(value)
  ELSE IF SchemaEntry(column_name).masking_strategy = "redact" THEN "[REDACTED]"
  ELSE value

(* lines 10-37 *)
mask_dataframe(df) ==
  IF IsEmptyTable(df) THEN df
  ELSE Table(df.columns,
             [r \in 1..Len(df.rows) |->
                [k \in 1..Len(df.columns) |-> mask_value(df.rows[r][k], df.columns[k])]])

(* df.to_string(index=False, max_rows=20) of a table of no more than 20
   rows: the header and the rows, a line each, the cells set apart by
   blanks *)
to_string(df) ==
  Join(<<Join(df.columns, " ")>> \o [r \in 1..Len(df.rows) |-> Join(df.rows[r], " ")], "\n")

(* hashlib.md5(sql_query.encode()).hexdigest()[:8]: the digest of the text,
   taken to differ for texts that differ *)
query_id_of(sql_query) == "md5:" \o sql_query

(* str.rstrip(';') *)
RStripSemicolons(s) ==
  Let(s, LAMBDA t :
    Slice(t, 1, CHOOSE n \in 0..Len(t) :
                  /\ \A i \in (n + 1)..Len(t) : Char(t, i) = ";"
                  /\ (n = 0 \/ Char(t, n) # ";")))

(* line 660: the result is a single cell *)
IsSingleCell(df) == Len(df.rows) = 1 /\ Len(df.columns) = 1

(* f"{value:,}" takes a number: of a str it raises ValueError *)
FormatRaises(df) == IsSingleCell(df) /\ ~AllDigits(df.rows[1][1])

(* lines 660-676: the text of a result, made of the table df *)
result_text(df, explanation, sql_query, query_id) ==
     (IF IsSingleCell(df)
      THEN "**Result**: " \o df.rows[1][1] \o "\n\n"
      ELSE "**Results**:\n" \o to_string(df) \o "\n\n")
  \o PyStr(explanation) \o "\n\n"
  \o "**Query**:\n" \o sql_query \o "\n"
  \o "Query ID: " \o query_id

(* USER_QUERY_CACHE.get(user_id, {}).get(query_id), the cache being the set
   of the entries of the user *)
HasCached(cache, query_id) == \E e \in cache : e.query_id = query_id

CachedEntry(cache, query_id) == CHOOSE e \in cache : e.query_id = query_id

(* what execute_sql_query returns and does: the triple it returns, the
   statement it gave run_query (None when it gave none), the table run_query
   returned and the files it wrote *)
Executed(text, query_id, df, ran, read_df, saved) ==
  [result_text |-> text, query_id |-> query_id, df |-> df, ran |-> ran,
   read_df |-> read_df, saved |-> saved]

(* lines 639-680; cache is USER_QUERY_CACHE[user_id], eng the engine of
   bot.db and read what pd.read_sql does *)
execute_sql_query(sql, explanation, cache, eng, qcache, now, read) ==
  Let(RStripSemicolons(Strip(sql)), LAMBDA sql_query :
  Let(query_id_of(sql_query), LAMBDA query_id :
    IF HasCached(cache, query_id)
    THEN Executed(CachedEntry(cache, query_id).result_text, query_id,
                  CachedEntry(cache, query_id).data, None, NoTable, {})
    ELSE Let(run_query(sql_query, FALSE, eng, qcache, now, read), LAMBDA out :
      IF out.raised # None
      THEN Executed("Query failed: " \o out.message, None, NoTable, sql_query, NoTable, {})
      ELSE IF IsEmptyTable(out.returned)
      THEN Executed("No data found for your query.", None, NoTable, sql_query, out.returned, {})
      ELSE Let(mask_dataframe(out.returned), LAMBDA df_masked :
        Let({[query_id |-> query_id, data_unmasked |-> out.returned, data |-> df_masked,
              sql |-> sql_query, explanation |-> explanation]}, LAMBDA saved :
          IF FormatRaises(out.returned)
          THEN Executed("Query failed: Cannot specify ',' with 's'.", None, NoTable,
                        sql_query, out.returned, saved)
          ELSE Executed(result_text(out.returned, explanation, sql_query, query_id),
                        query_id, df_masked, sql_query, out.returned, saved))))))
-----------------------------------------------------------------------------
(* what the turns of the chat meet: the messages, the answers of the models
   and of the warehouse *)

(* what the model answers generate_content with: kind exception when the call
   raises, not_json when json.loads does, else the dict data *)
LogicAnswer(kind, sql, explanation) == [kind |-> kind, sql |-> sql, explanation |-> explanation]

Users == {"U1"}

(* the tables the warehouse answers the statements of the turns with *)
OneCell == Table(<<"leads">>, <<<<"42">>>>)

CityRows == Table(<<"city", "leads">>, <<<<WarehouseCities[1], "42">>, <<WarehouseCities[2], "7">>>>)

NameRows == Table(<<"name">>, <<<<"Ravi Kumar">>, <<"Ravi Shah">>>>)

CodeRows == Table(<<"code">>, <<<<"PW32306">>>>)

Reads(df) == [raised |-> FALSE, message |-> "", table |-> df]

ReadFails == [raised |-> TRUE, message |-> "presto: query failed", table |-> NoTable]

(* what the helpers of the agent workflow meet: the name
   ai_assisted_agent_name returns, what pd.read_sql does for the statement of
   the agent ids, of the pool of names, of a code and of the suggestions, the
   number of names the fuzzy scores keep and the Status the tracker tells *)
AgentWorld(ai_name, ids, pool, top, status) ==
  [ai_name |-> ai_name, ids |-> ids, pool |-> pool, code |-> Reads(CodeRows),
   suggest |-> pool, top |-> top, status |-> status]

NoAgentWorld == AgentWorld(None, ReadFails, ReadFails, 0, None)

AgentWorlds ==
  {NoAgentWorld,
   AgentWorld("PW32306", Reads(CodeRows), ReadFails, 0, "READY"),
   AgentWorld("ravi", Reads(CodeRows), ReadFails, 2, None)}

CitySql == "SELECT city, COUNT(*) AS leads FROM sme_analytics.sme_leadbookingrevenue GROUP BY city;"

LogicAnswers ==
  {LogicAnswer("dict", CitySql, "Leads of each city"),
   LogicAnswer("dict", "DELETE FROM sme_analytics.sme_leadbookingrevenue", None),
   LogicAnswer("exception", None, None)}

(* what a turn meets. intent is what classify_intent(text) answers: the
   routers compare it with 'business_logic' and 'agent_status' *)
Meets(intent, answer, logic, read, agent) ==
  [intent |-> intent, llm |-> answer, logic |-> logic, read |-> read, agent |-> agent]

CityAnswer == Answer([DefaultDraft EXCEPT !.dimensions = <<"city">>])

SummaryAnswer == Answer([DefaultDraft EXCEPT !.agent = DraftAgent("dict", "summary", "sample", <<>>)])

Message(text, meets) == [text |-> text, meets |-> meets]

NoLogic == LogicAnswer("exception", None, None)

MessageInputs ==
  {Message("agents active now for marine", Meets("simple_metric", Answer(DefaultDraft), NoLogic, Reads(NoTable), NoAgentWorld)),
   Message("leads last week", Meets("simple_metric", Answer(DefaultDraft), NoLogic, Reads(NoTable), NoAgentWorld)),
   Message("leads last week", Meets("simple_metric", Failure("exception", "429 quota exceeded"), NoLogic, ReadFails, NoAgentWorld)),
   Message("leads last week remember that gmv is revenue", Meets("simple_metric", Answer(DefaultDraft), NoLogic, ReadFails, NoAgentWorld)),
   Message("leads by city", Meets("simple_metric", CityAnswer, NoLogic, Reads(CityRows), NoAgentWorld)),
   Message("", Meets("simple_metric", Answer(DefaultDraft), NoLogic, ReadFails, NoAgentWorld)),
   Message("Main Menu ", Meets("simple_metric", Answer(DefaultDraft), NoLogic, ReadFails, NoAgentWorld))}
  \cup {Message("city split of leads", Meets("business_logic", CityAnswer, l, Reads(NoTable), NoAgentWorld)) :
          l \in LogicAnswers}
  \cup {Message("status of ravi", Meets("agent_status", Answer(DefaultDraft), NoLogic, ReadFails, w)) :
          w \in AgentWorlds}
  \cup {Message("agents active now for marine", Meets("agent_status", SummaryAnswer, NoLogic, ReadFails, NoAgentWorld))}

(* extract(text) and build_sql(entities) of lines 803-804 are functions of
   the text and of what the extractor's model answers: the record and the
   statement of each message, worked out once *)
Pipeline ==
  [m \in MessageInputs |->
     Let(extract(m.text, m.meets.llm, DefaultToday, None), LAMBDA ents :
       [ents |-> ents, sql_payload |-> build_sql(ents.data)])]
-----------------------------------------------------------------------------
(* src/business_logic_manager.py: generate_sql_from_logic, and run_main_logic
   of src/main.py *)

forbidden_keywords == <<"delete", "insert", "update", "drop", "truncate">>

(* lines 107-127: the dict returned; error is None when it has no such key *)
generate_sql_from_logic(answer) ==
  IF answer.kind = "exception"
  THEN [error |-> "503 model overloaded", sql |-> None, explanation |-> None]
  ELSE IF answer.kind = "not_json"
  THEN [error |-> "Expecting value: line 1 column 1 (char 0)", sql |-> None, explanation |-> None]
  ELSE Let(Strip(TextOrEmpty(answer.sql)), LAMBDA sql :
    IF ~StartsWith(Lower(sql), "select")
    THEN [error |-> "Generated query is not a SELECT statement.", sql |-> None,
          explanation |-> None]
    ELSE IF AnyPhrase(Lower(sql), forbidden_keywords)
    THEN [error |-> "Generated query contains forbidden keywords.", sql |-> None,
          explanation |-> None]
    ELSE [error |-> None, sql |-> answer.sql, explanation |-> answer.explanation])

(* one call a handler made: of extract (the text and the record returned), of
   build_sql (the record passed and the statement returned), of
   generate_sql_from_logic (the text and the statement returned) or of
   db.run_query (the statement and the table returned) *)
Event(op, text, ents, sql, df) == [op |-> op, text |-> text, ents |-> ents, sql |-> sql, df |-> df]

(* a message as the user is shown it. kind is text, blocks, modal (a view
   opened on the user's screen), file or form *)
Reply(kind, text) == [kind |-> kind, text |-> text]

(* what a routine did: the calls it made, the msg of each say(msg) in turn,
   the files it wrote to query_results, and what it left in
   db.query_cache *)
Did(events, said, saved, qcache) ==
  [events |-> events, said |-> said, saved |-> saved, qcache |-> qcache]

feedback_keywords ==
  <<"for future understand", "remember that", "the logic should be", "for future reference">>

(* line 820: the first keyword of the list that the text holds, 0 if none *)
FirstKeyword(text_lower) ==
  IF ~AnyPhrase(text_lower, feedback_keywords) THEN 0
  ELSE CHOOSE k \in 1..Len(feedback_keywords) :
         /\ Contains(text_lower, feedback_keywords[k])
         /\ \A j \in 1..(k - 1) : ~Contains(text_lower, feedback_keywords[j])

(* line 821: text.split(keyword, 1)[1].strip(), where text holds keyword *)
AfterKeyword(text, keyword) ==
  Strip(Slice(text, FindFrom(text, 1, keyword) + Len(keyword), Len(text)))

(* lines 815-836: what the scan for embedded feedback says. The list index
   raises when the keyword is
   in the lowered text alone, and feedback_id is unbound when no text
   follows the keyword: raised tells it *)
feedback_scan(text) ==
  Let(FirstKeyword(Lower(text)), LAMBDA k :
    IF k = 0 THEN [raised |-> FALSE, said |-> <<>>]
    ELSE IF ~Contains(text, feedback_keywords[k]) THEN [raised |-> TRUE, said |-> <<>>]
    ELSE IF AfterKeyword(text, feedback_keywords[k]) = "" THEN [raised |-> TRUE, said |-> <<>>]
    ELSE [raised |-> FALSE,
          said |-> <<"Noted for expert review:\n> _" \o AfterKeyword(text, feedback_keywords[k]) \o "_">>])

SomethingWentWrong == "Something went wrong. Please try again."

(* lines 814-839: the end of run_main_logic after a query *)
after_query(text, did) ==
  Let(feedback_scan(text), LAMBDA f :
    IF f.raised THEN [did EXCEPT !.said = @ \o <<SomethingWentWrong>>]
    ELSE [did EXCEPT !.said = @ \o f.said])

(* lines 795-798 and 811-813: bot.execute_sql_query(sql_query, explanation,
   user_id) and say(result_text); a statement of None has no strip() *)
execute_and_say(text, events, said, sql, explanation, cache, eng, qcache, now, read) ==
  IF sql = None THEN Did(events, said \o <<SomethingWentWrong>>, {}, qcache)
  ELSE Let(execute_sql_query(sql, explanation, cache, eng, qcache, now, read), LAMBDA x :
    after_query(text,
      Did(events \o (IF x.ran = None THEN <<>>
                     ELSE <<Event("run_query", None, DefaultEntities, x.ran, x.read_df)>>),
          said \o <<x.result_text>>, x.saved, qcache)))

(* lines 782-839. i is what the turn meets: intent is what classify_intent
   answers, llm what the extractor's model does, logic what the model of the
   business logic manager does, read what pd.read_sql does *)
run_main_logic(text, i, cache, eng, qcache, now) ==
  IF i.intent = "business_logic"
  THEN Let(generate_sql_from_logic(i.logic), LAMBDA res :
    Let(<<Event("generate_sql_from_logic", text, DefaultEntities, res.sql, NoTable)>>,
        LAMBDA events :
    Let(<<"This seems like a complex query. Let me think...">>, LAMBDA said :
      IF res.error # None
      THEN Did(events, said \o <<"I had trouble understanding that logic. Error: " \o res.error>>,
               {}, qcache)
      ELSE execute_and_say(text, events, said, res.sql, res.explanation,
                           cache, eng, qcache, now, i.read))))
  ELSE Let(Pipeline[Message(text, i)], LAMBDA p :
    Let(<<Event("extract", text, p.ents.data, None, NoTable),
          Event("build_sql", None, p.ents.data, p.sql_payload.sql, NoTable)>>, LAMBDA events :
      IF p.sql_payload.raised # None THEN Did(events, <<SomethingWentWrong>>, {}, qcache)
      ELSE IF p.sql_payload.intent # "metric_query"
      THEN Did(events, <<"I'm sorry, I'm not sure how to handle that request.">>, {}, qcache)
      ELSE execute_and_say(text, events, <<>>, p.sql_payload.sql, p.sql_payload.explanation,
                           cache, eng, qcache, now, i.read)))
-----------------------------------------------------------------------------
(* src/main.py: the agent workflow. The drafts of the extractor's model carry
   no name, codes or fields of an agent, so agent_ai.get of them is None. *)

agent_name_columns ==
  <<"leadassignedagentname", "currentlyassigneduser", "first_assigned_agent",
    "booking_agent", "booking_agent_manager", "booking_agent_manager2">>

suggest_name_columns ==
  <<"leadassignedagentname", "currentlyassigneduser", "leadreportingmanagername",
    "leadreportingmanagername2", "first_assigned_agent", "booking_agent",
    "booking_agent_manager", "booking_agent_manager2">>

(* lines 355-363 and 463-469 *)
names_sql(columns, limit) ==
     "SELECT name FROM ( "
  \o Join(MapSeq(columns, LAMBDA col :
            "SELECT " \o col \o " AS name, MAX(COALESCE(bookingdate, leaddate)) AS last_dt FROM sme_analytics.sme_leadbookingrevenue "
            \o "WHERE " \o col \o " IS NOT NULL AND TRIM(CAST(" \o col \o " AS VARCHAR)) <> '' GROUP BY " \o col),
          " UNION ALL ")
  \o " ) t WHERE name IS NOT NULL GROUP BY name ORDER BY MAX(last_dt) DESC LIMIT " \o IntToStr(limit)

(* line 362, limit being 5 or 1: max(200, limit*50) *)
pool_sql == Statement(names_sql(agent_name_columns, 250))

(* line 469, limit_names being 400 *)
suggest_sql == Statement(names_sql(suggest_name_columns, 400))

(* lines 396-407 *)
code_sql(nm, products) ==
  Statement(
     "SELECT lead_agentid AS code FROM sme_analytics.sme_leadbookingrevenue "
  \o "WHERE lead_agentid IS NOT NULL AND TRIM(lead_agentid) <> '' AND ("
  \o Join(MapSeq(agent_name_columns, LAMBDA col :
            "LOWER(CAST(" \o col \o " AS VARCHAR)) = '" \o Lower(Replace(nm, "'", "''")) \o "'"),
          " OR ")
  \o ")"
  \o (IF products # <<>> THEN " AND investmenttypeid IN (" \o Join(MapSeq(products, IntToStr), ", ") \o ")"
      ELSE "")
  \o " ORDER BY COALESCE(bookingdate, leaddate) DESC LIMIT 1")

active_agent_filter ==
     "lead_agentid IS NOT NULL AND TRIM(lead_agentid) <> '' "
  \o "AND booking_status = 'IssuedBusiness' "
  \o "AND bookingdate >= DATE_TRUNC('month', CURRENT_DATE) - INTERVAL '1' MONTH"

(* lines 617-631: pid is None for the statement of all the products *)
agent_ids_sql(pid) ==
  Statement(
     "SELECT DISTINCT lead_agentid FROM sme_analytics.sme_leadbookingrevenue WHERE "
  \o (IF pid = None THEN "" ELSE "investmenttypeid = " \o IntToStr(pid) \o " AND ")
  \o active_agent_filter)

Least(ns) == CHOOSE n \in ns : \A m \in ns : n <= m

(* what a helper of the bot did: the value it returns, the calls of
   db.run_query it made and what it left in db.query_cache *)
Looked(value, events, qcache) == [value |-> value, events |-> events, qcache |-> qcache]

(* one call df = self.db.run_query(sql, use_cache) of a statement st: ok is
   false when it raises *)
lookup(st, use_cache, eng, qcache, now, read) ==
  Let(run_statement(st, use_cache, eng, qcache, now, read), LAMBDA out :
    [ok |-> out.raised = None,
     df |-> IF out.raised = None THEN out.returned ELSE NoTable,
     event |-> Event("run_query", None, DefaultEntities, st.sql,
                     IF out.raised = None THEN out.returned ELSE NoTable),
     qcache |-> out.cache])

(* the first column of a table, the blank cells left out *)
FirstColumn(df) ==
  SelectSeq([r \in 1..Len(df.rows) |-> df.rows[r][1]], LAMBDA x : Strip(x) # "")

(* lines 603-637, the products given being none or one. What the dict holds
   is the list of the one key, or no key when run_query raised *)
get_all_agent_ids_for_products(products, eng, qcache, now, read) ==
  Let(lookup(agent_ids_sql(IF products = <<>> THEN None ELSE products[1]),
             FALSE, eng, qcache, now, read), LAMBDA l :
    Looked([found |-> l.ok, agent_ids |-> IF l.ok THEN FirstColumn(l.df) ELSE <<>>],
           <<l.event>>, l.qcache))

(* lines 394-410: the codes of the names in turn; a.code is what pd.read_sql
   does for each *)
RECURSIVE resolve_codes(_, _, _, _, _, _)
resolve_codes(names, products, a, eng, now, done) ==
  IF names = <<>> THEN done
  ELSE Let(lookup(code_sql(Head(names), products), TRUE, eng, done.qcache, now, a.code), LAMBDA l :
    resolve_codes(Tail(names), products, a, eng, now,
      Looked(done.value \o (IF l.ok /\ ~IsEmptyTable(l.df) /\ Strip(l.df.rows[1][1]) # ""
                            THEN <<[code |-> Strip(l.df.rows[1][1]), name |-> Head(names)]>>
                            ELSE <<>>),
             Append(done.events, l.event), l.qcache)))

(* lines 342-420. a.pool is what pd.read_sql does for the pool of names and
   a.top the number of names of the pool that the fuzzy scores keep *)
resolve_agent_candidates(agent_name, products, limit, a, eng, qcache, now) ==
  IF ~Truthy(agent_name) THEN Looked(<<>>, <<>>, qcache)
  ELSE Let(lookup(pool_sql, TRUE, eng, qcache, now, a.pool), LAMBDA l :
    IF ~l.ok \/ IsEmptyTable(l.df) THEN Looked(<<>>, <<l.event>>, l.qcache)
    ELSE IF ~InSeq("name", l.df.columns) THEN Looked(<<>>, <<l.event>>, l.qcache)
    ELSE Let(SubSeq(FirstColumn(l.df), 1, Least({a.top, limit, Len(FirstColumn(l.df))})),
             LAMBDA top_names :
      resolve_codes(top_names, products, a, eng, now,
                    Looked(<<>>, <<l.event>>, l.qcache))))

(* lines 451-502: the names suggested, none when run_query raises or the
   pool is empty; a.suggest is what pd.read_sql does *)
suggest_agent_names(name_query, a, eng, qcache, now) ==
  IF Strip(TextOrEmpty(name_query)) = "" THEN Looked(<<>>, <<>>, qcache)
  ELSE Let(lookup(suggest_sql, TRUE, eng, qcache, now, a.suggest), LAMBDA l :
    Looked(IF l.ok /\ ~IsEmptyTable(l.df) /\ InSeq("name", l.df.columns)
           THEN SubSeq(FirstColumn(l.df), 1, Least({a.top, Len(FirstColumn(l.df))}))
           ELSE <<>>,
           <<l.event>>, l.qcache))

WordChar(c) == IsLetter(c) \/ IsDigit(c) \/ c = "_"

(* re.fullmatch(r"[A-Za-z]{1,6}\d{2,8}", s) *)
IsAgentCode(s) ==
  \E n \in 1..6 :
    /\ Len(s) - n \in 2..8
    /\ \A k \in 1..n : IsLetter(Char(s, k))
    /\ \A k \in (n + 1)..Len(s) : IsDigit(Char(s, k))

(* re.findall(r"\b[A-Za-z]{1,6}\d{2,8}\b", text): the words of the text that
   are codes *)
code_tokens(text) ==
  Let(text, LAMBDA t :
    Let({p \in 1..Len(t) : WordChar(Char(t, p)) /\ (p = 1 \/ ~WordChar(Char(t, p - 1)))},
        LAMBDA starts :
      Let([p \in starts |-> CHOOSE q \in p..Len(t) :
                              /\ \A k \in p..q : WordChar(Char(t, k))
                              /\ (q = Len(t) \/ ~WordChar(Char(t, q + 1)))], LAMBDA ends :
        SelectSeq([k \in 1..Cardinality(starts) |->
                     Let(CHOOSE p \in starts : Cardinality({x \in starts : x < p}) = k - 1,
                         LAMBDA p : Slice(t, p, ends[p]))],
                  IsAgentCode))))

(* re.search(r"for\s+(.+)$", text, IGNORECASE): the tail after the first
   'for' that blanks and some text follow, "" without one; the text is of
   one line *)
for_tail(text) ==
  Let(text, LAMBDA t :
    Let({p \in 1..Len(t) : /\ MatchAt(Lower(t), p, "for")
                           /\ p + 3 <= Len(t) /\ IsSpace(Char(t, p + 3))
                           /\ p + 4 <= Len(t)}, LAMBDA hits :
      IF hits = {} THEN ""
      ELSE Let(CHOOSE p \in hits : \A q \in hits : p <= q, LAMBDA p :
        Let(RunEnd(t, p + 3, IsSpace), LAMBDA e :
          IF e > Len(t) THEN Slice(t, Len(t), Len(t)) ELSE Slice(t, e, Len(t))))))

(* re.split(r",| and ", tail, IGNORECASE) *)
RECURSIVE split_names(_)
split_names(tail) ==
  Let(FindFrom(tail, 1, ","), LAMBDA c :
  Let(FindFrom(Lower(tail), 1, " and "), LAMBDA d :
    IF c = 0 /\ d = 0 THEN <<tail>>
    ELSE IF d = 0 \/ (c # 0 /\ c < d)
    THEN <<Slice(tail, 1, c - 1)>> \o split_names(Slice(tail, c + 1, Len(tail)))
    ELSE <<Slice(tail, 1, d - 1)>> \o split_names(Slice(tail, d + 5, Len(tail)))))

(* lines 544-552 *)
names_for(text) ==
  IF for_tail(text) = "" THEN <<>>
  ELSE SelectSeq(MapSeq(split_names(for_tail(text)), Strip),
                 LAMBDA n : n # "" /\ ~IsAgentCode(n))

(* list(dict.fromkeys(codes)): the first of each *)
Uniq(codes) ==
  SelectSeq([k \in 1..Len(codes) |->
               IF \E j \in 1..(k - 1) : codes[j] = codes[k] THEN None ELSE codes[k]],
            LAMBDA c : c # None)

(* lines 553-557: the freshest candidate of each name in turn *)
RECURSIVE codes_of_names(_, _, _, _, _, _)
codes_of_names(names, products, a, eng, now, done) ==
  IF names = <<>> THEN done
  ELSE Let(resolve_agent_candidates(Head(names), products, 1, a, eng, done.qcache, now), LAMBDA r :
    codes_of_names(Tail(names), products, a, eng, now,
      Looked(done.value \o (IF r.value # <<>> THEN <<r.value[1].code>> ELSE <<>>),
             done.events \o r.events, r.qcache)))

(* lines 536-565; text is a str *)
extract_agent_codes_from_text(text, products, a, eng, qcache, now) ==
  Let(codes_of_names(names_for(text), products, a, eng, now,
                     Looked(code_tokens(text), <<>>, qcache)), LAMBDA r :
    Looked(Uniq(r.value), r.events, r.qcache))

status_words ==
  <<<<"pause", "PAUSE">>, <<"on pause", "PAUSE">>, <<"busy", "BUSY">>, <<"idle", "IDLE">>,
    <<"available", "AVAILABLE">>, <<"ready", "READY">>, <<"oncall", "ONCALL">>,
    <<"on call", "ON CALL">>, <<"ringing", "RINGING">>, <<"tea", "TEA">>,
    <<"unavailable", "UNAVAILABLE">>>>

(* lines 580-601: the set of the statuses the text names *)
parse_status_filter(text) ==
  {status_words[k][2] : k \in {j \in 1..Len(status_words) :
                                 Contains(Lower(TextOrEmpty(text)), status_words[j][1])}}

default_active == {"READY", "AVAILABLE", "IDLE", "ONCALL", "ON CALL", "BUSY"}

agent_mode_summary_phrases ==
  <<"agents active", "active agents", "agents online", "how many agents",
    "how many agents are on", "number of agents">>

(* line 870 *)
is_summary(text, ents) ==
  ents.agent.mode = "summary" \/ AnyPhrase(Lower(TextOrEmpty(text)), agent_mode_summary_phrases)

(* lines 884-917: the line of the one product. a.status is the Status the
   tracker tells of every agent, None when it tells none *)
summary_line(pid, check_ids, desired_statuses, a) ==
  Let(IF a.status = None THEN 0
      ELSE IF desired_statuses # {} THEN (IF a.status \in desired_statuses THEN Len(check_ids) ELSE 0)
      ELSE IF a.status \in default_active THEN Len(check_ids) ELSE 0, LAMBDA active_count :
    "- " \o (IF pid = None THEN "All Products" ELSE "Product " \o IntToStr(pid)) \o ": "
    \o IntToStr(active_count)
    \o (IF desired_statuses # {} THEN " with status" ELSE " active now"))

(* lines 871-931 *)
agent_summary(text, ents, a, eng, qcache, now) ==
  Let(get_all_agent_ids_for_products(ents.products, eng, qcache, now, a.ids), LAMBDA ids :
  Let(extract_agent_codes_from_text(text, ents.products, a, eng, ids.qcache, now), LAMBDA codes :
  Let({s \in {ents.agent.status_filters[k] : k \in 1..Len(ents.agent.status_filters)} : TRUE},
      LAMBDA ai_statuses :
  Let(IF ai_statuses # {} THEN ai_statuses ELSE parse_status_filter(text), LAMBDA desired :
    Did(ids.events \o codes.events,
        <<"Agent activity:\n"
          \o (IF ids.value.found
              THEN summary_line(IF ents.products = <<>> THEN None ELSE ents.products[1],
                                IF codes.value # <<>> THEN codes.value ELSE ids.value.agent_ids,
                                desired, a)
              ELSE "No agents found.")>>,
        {}, codes.qcache)))))

(* line 939: re.sub(r"\bin\s+[A-Za-z\s]+$", "", agent_name, IGNORECASE).strip()
   of a name that has no word 'in' *)
clean_agent_name(agent_name) == Strip(agent_name)

(* lines 935-993. a.ai_name is what ai_assisted_agent_name returns *)
agent_single(text, ents, a, eng, qcache, now) ==
  Let(IF a.ai_name = None THEN None
      ELSE IF Lower(clean_agent_name(a.ai_name)) \in {"today", "yesterday", "this week", "this month"}
      THEN None
      ELSE clean_agent_name(a.ai_name), LAMBDA agent_name :
    IF ~Truthy(agent_name)
    THEN Did(<<>>, <<"Please provide the agent name or code (e.g., 'PW32306').">>, {}, qcache)
    ELSE IF IsAgentCode(agent_name)
    THEN Did(<<>>,
             <<IF a.status = None
               THEN "No live status found for agent (ID: " \o agent_name \o ")."
               ELSE "Agent status">>, {}, qcache)
    ELSE Let(resolve_agent_candidates(agent_name, ents.products, 5, a, eng, qcache, now),
             LAMBDA c :
      IF c.value = <<>>
      THEN Let(suggest_agent_names(agent_name, a, eng, c.qcache, now), LAMBDA s :
        Did(c.events \o s.events,
            <<IF s.value # <<>>
              THEN "Couldn't find any agent for that name. Did you mean: "
                     \o Join(s.value, ", ") \o "?"
              ELSE "Couldn't find any agent for that name. Try exact CRM name or provide agent code.">>,
            {}, s.qcache))
      ELSE IF Len(c.value) > 1
      THEN Did(c.events,
               <<"Multiple agents match that name. Please specify the agent code from below:\n"
                 \o Join(MapSeq(c.value, LAMBDA x : "- " \o x.name \o " (code: " \o x.code \o ")"),
                         "\n")>>,
               {}, c.qcache)
      ELSE Did(c.events,
               <<IF a.status = None
                 THEN "No live status found for agent (ID: " \o c.value[1].code \o ")."
                 ELSE "Agent status">>, {}, c.qcache)))

(* lines 861-996: extract is called once before the summary and once more
   before the lookup of the one agent *)
handle_agent_mode(text, i, eng, qcache, now) ==
  Let(extract(text, i.llm, DefaultToday, None), LAMBDA ents :
  Let(Event("extract", text, ents.data, None, NoTable), LAMBDA e :
    IF is_summary(text, ents.data)
    THEN Let(agent_summary(text, ents.data, i.agent, eng, qcache, now), LAMBDA d :
           [d EXCEPT !.events = <<e>> \o @])
    ELSE Let(agent_single(text, ents.data, i.agent, eng, qcache, now), LAMBDA d :
           [d EXCEPT !.events = <<e, e>> \o @])))
-----------------------------------------------------------------------------
(* src/main.py: the chat events and their handlers *)


(* the event a handler was called with and what it did. entry is slack or
   web; handler names the routine the event was routed to last; text is the
   message, or the action id of a button; llm is what the extractor's model
   did; events are the calls made and replies what the user was shown, in
   turn *)
Turn(entry, handler, text, answer, events, replies) ==
  [entry |-> entry, handler |-> handler, text |-> text, llm |-> answer,
   events |-> events, replies |-> replies]

NoTurn == Turn("none", "none", "", Answer(DefaultDraft), <<>>, <<>>)

Menu == Reply("blocks", "Choose a mode")

Processing == Reply("text", "Processing...")

(* Slack's say(msg) of each msg a routine said with say_and_store(msg):
   lines 1198-1204, a msg of None or "" is not said *)
say_and_store(said) ==
  MapSeq(SelectSeq(said, Truthy), LAMBDA msg : Reply("text", msg))

(* Slack's say(msg) of each msg a routine said *)
slack_say(said) == MapSeq(said, LAMBDA msg : Reply("text", msg))

(* lines 1025-1056: the responses of say(msg) for each msg; a msg of None
   appends none, a msg with a query id is sent as blocks with the buttons *)
web_say(said) ==
  MapSeq(SelectSeq(said, LAMBDA msg : msg # None),
         LAMBDA msg : Reply(IF Contains(msg, "Query ID:") THEN "blocks" ELSE "text", msg))

(* re.search of the pattern Query ID: (\w+) in msg, group(1): the id that
   follows the mark up to the end of its line, a digest being one word *)
query_id_in(msg) ==
  Let(FindFrom(msg, 1, "Query ID: "), LAMBDA p :
    Let(FindFrom(msg, p + 10, "\n"), LAMBDA e :
      Slice(msg, p + 10, IF e = 0 THEN Len(msg) ELSE e - 1)))

(* lines 1027-1035: WEB_USER_LAST_QUERY_ID after say(msg) of each msg *)
RECURSIVE last_query_id(_, _)
last_query_id(said, before) ==
  IF said = <<>> THEN before
  ELSE last_query_id(Tail(said),
         IF Head(said) # None /\ Contains(Head(said), "Query ID:") /\ query_id_in(Head(said)) # ""
         THEN query_id_in(Head(said)) ELSE before)

(* save_query_result, lines 682-690: the files after the ones saved are
   written *)
Saved(files, saved) ==
  {f \in files : \A s \in saved : s.query_id # f.query_id} \cup saved

(* line 1183 *)
is_menu_text(text) == Lower(Strip(text)) \in {"menu", "main menu", "start over", "restart"}

(* Slack's app_mention event: lines 1173-1205, the text being the one left
   when the mention is cut off *)
handle_message ==
  /\ \E u \in Users, m \in MessageInputs :
       LET text == Strip(m.text)
           mode == USER_SESSIONS[u]
       IN IF text = "" \/ is_menu_text(text)
          THEN /\ turn' = Turn("slack", "show_main_menu", text, m.meets.llm, <<>>, <<Menu>>)
               /\ UNCHANGED <<USER_SESSIONS, query_results, query_cache>>
          ELSE IF mode = None /\ ~Contains(Lower(text), "agent")
          THEN /\ turn' = Turn("slack", "show_main_menu", text, m.meets.llm, <<>>, <<Menu>>)
               /\ UNCHANGED <<USER_SESSIONS, query_results, query_cache>>
          ELSE IF mode = None \/ mode = "agent"
          THEN \E a \in {handle_agent_mode(text, m.meets, engine, query_cache, clock)} :
                 /\ USER_SESSIONS' = [USER_SESSIONS EXCEPT ![u] = "agent"]
                 /\ turn' = Turn("slack", "handle_agent_mode", text, m.meets.llm, a.events,
                                 slack_say(a.said))
                 /\ query_cache' = a.qcache
                 /\ UNCHANGED query_results
          ELSE \E d \in {run_main_logic(text, m.meets, USER_QUERY_CACHE[u], engine, query_cache,
                                        clock)} :
                 /\ turn' = Turn("slack", "run_main_logic", text, m.meets.llm, d.events,
                                 <<Processing>> \o say_and_store(d.said))
                 /\ query_results' = Saved(query_results, d.saved)
                 /\ query_cache' = d.qcache
                 /\ UNCHANGED USER_SESSIONS
  /\ UNCHANGED <<USER_QUERY_CACHE, WEB_USER_LAST_QUERY_ID, engine, clock, db_call>>
  /\ UNCHANGED <<turn_vars, dc_vars, more_vars>>
-----------------------------------------------------------------------------
(* src/main.py: the buttons of Slack and the web chat *)

(* the query ids a button may carry as its value, a file of query_results
   being there for it or not *)
ButtonValues ==
  {query_id_of("SELECT city, COUNT(*) as leads FROM sme_analytics.sme_leadbookingrevenue GROUP BY city"),
   "0badc0de"}

HasFile(files, query_id) == \E f \in files : f.query_id = query_id

FileOf(files, query_id) == CHOOSE f \in files : f.query_id = query_id

(* the frame of a button of Slack: it leaves the database and the web state
   as they are *)
ButtonFrame == UNCHANGED <<WEB_USER_LAST_QUERY_ID, db_vars, turn_vars, dc_vars, more_vars>>

Pressed(action_id, replies) == Turn("slack", action_id, action_id, NoTurn.llm, <<>>, replies)

(* lines 1276-1281 *)
handle_show_menu ==
  /\ turn' = Pressed("show_menu", <<Menu>>)
  /\ UNCHANGED <<USER_SESSIONS, USER_QUERY_CACHE, query_results>>
  /\ ButtonFrame

(* lines 1283-1293 *)
handle_show_help ==
  /\ turn' = Pressed("show_help", <<Reply("text", "Type 'menu' to switch modes; 'end session' to reset.")>>)
  /\ UNCHANGED <<USER_SESSIONS, USER_QUERY_CACHE, query_results>>
  /\ ButtonFrame

(* lines 1295-1300 *)
handle_end_session ==
  /\ \E u \in Users : USER_SESSIONS' = [USER_SESSIONS EXCEPT ![u] = None]
  /\ turn' = Pressed("end_session", <<Reply("text", "Session ended.")>>)
  /\ UNCHANGED <<USER_QUERY_CACHE, query_results>>
  /\ ButtonFrame

(* lines 1483-1490 *)
handle_choose_metrics ==
  /\ \E u \in Users : USER_SESSIONS' = [USER_SESSIONS EXCEPT ![u] = "metrics"]
  /\ turn' = Pressed("choose_metrics", <<Reply("text", "Metrics mode selected. Ask your question.")>>)
  /\ UNCHANGED <<USER_QUERY_CACHE, query_results>>
  /\ ButtonFrame

(* lines 1492-1499 *)
handle_choose_agent_status ==
  /\ \E u \in Users : USER_SESSIONS' = [USER_SESSIONS EXCEPT ![u] = "agent"]
  /\ turn' = Pressed("choose_agent_status", <<Reply("text", "Agent mode selected.")>>)
  /\ UNCHANGED <<USER_QUERY_CACHE, query_results>>
  /\ ButtonFrame

(* lines 1210-1234: the upload carries its comment; uploaded is false when
   files_upload_v2 raises *)
handle_download_excel ==
  /\ \E query_id \in ButtonValues, uploaded \in BOOLEAN :
       turn' = Pressed("download_excel",
                 <<IF HasFile(query_results, query_id) /\ uploaded
                   THEN Reply("file", "Here's your data!")
                   ELSE Reply("text", "Failed to generate Excel file")>>)
  /\ UNCHANGED <<USER_SESSIONS, USER_QUERY_CACHE, query_results>>
  /\ ButtonFrame

(* lines 1238-1274: the view is opened, or views_open raises and the error
   is printed *)
handle_subscribe_alerts ==
  /\ \E opened \in BOOLEAN :
       turn' = Pressed("subscribe_alerts",
                 IF opened THEN <<Reply("modal", "Subscribe to Alerts")>> ELSE <<>>)
  /\ UNCHANGED <<USER_SESSIONS, USER_QUERY_CACHE, query_results>>
  /\ ButtonFrame

(* lines 1338-1376: the entry of the per-user cache is made of the file *)
handle_mark_correct ==
  /\ \E u \in Users, query_id \in ButtonValues :
       IF HasFile(query_results, query_id)
       THEN /\ USER_QUERY_CACHE' =
                 [USER_QUERY_CACHE EXCEPT ![u] =
                    {e \in @ : e.query_id # query_id}
                    \cup {[query_id |-> query_id,
                           data |-> FileOf(query_results, query_id).data,
                           sql |-> FileOf(query_results, query_id).sql,
                           explanation |-> FileOf(query_results, query_id).explanation,
                           result_text |-> None]}]
            /\ turn' = Pressed("mark_correct",
                         <<Reply("text", "Marked as correct. I will reuse this result for you if you ask the same thing again.")>>)
       ELSE /\ turn' = Pressed("mark_correct", <<Reply("text", "Could not mark as correct: No such file or directory")>>)
            /\ UNCHANGED USER_QUERY_CACHE
  /\ UNCHANGED <<USER_SESSIONS, query_results>>
  /\ ButtonFrame

(* lines 1380-1407 *)
handle_mark_wrong ==
  /\ \E opened \in BOOLEAN :
       turn' = Pressed("mark_wrong",
                 <<IF opened THEN Reply("modal", "What was wrong?")
                   ELSE Reply("text", "Could not open feedback form")>>)
  /\ UNCHANGED <<USER_SESSIONS, USER_QUERY_CACHE, query_results>>
  /\ ButtonFrame

WebActions ==
  {"show_menu", "choose_metrics", "choose_agent_status", "show_help", "end_session",
   "download_excel", "subscribe_alerts", "feedback", "submit_feedback", "refresh"}

(* lines 1059-1121: the responses to a button of the web chat; frequency is
   the one the request carries, None without one *)
web_action(action_id, frequency, last_id) ==
  IF action_id = "show_menu" THEN <<Menu>>
  ELSE IF action_id = "choose_metrics" THEN <<Reply("text", "Please enter your metrics query.")>>
  ELSE IF action_id = "choose_agent_status"
  THEN <<Reply("text", "Please enter your agent status query.")>>
  ELSE IF action_id = "show_help" THEN <<Reply("text", "You can ask me about insurance metrics.")>>
  ELSE IF action_id = "end_session" THEN <<Reply("text", "Session ended. Type anything to start again.")>>
  ELSE IF action_id = "download_excel"
  THEN <<IF Truthy(last_id) THEN Reply("download", "/download_excel/" \o last_id)
         ELSE Reply("text", "No query result available for download.")>>
  ELSE IF action_id = "subscribe_alerts"
  THEN <<IF ~Truthy(frequency)
         THEN Reply("blocks", "How often do you want to receive alerts for this query?")
         ELSE Reply("text", "You are now subscribed to " \o frequency \o " alerts for this query!")>>
  ELSE IF action_id = "feedback" THEN <<Reply("form", "feedback_form")>>
  ELSE IF action_id = "submit_feedback" THEN <<Reply("text", "Thank you for your feedback!")>>
  ELSE <<Reply("text", "Action: " \o action_id)>>

(* lines 1136-1139 *)
responses_or_sorry(responses) ==
  IF responses # <<>> THEN responses ELSE <<Reply("text", "Sorry, I didn't understand that.")>>

(* POST /api/chat with an action_id: lines 1016-1139 *)
web_chat_action ==
  /\ \E u \in Users, action_id \in WebActions, frequency \in {None, "daily"} :
       /\ turn' = Turn("web", action_id, action_id, NoTurn.llm, <<>>,
                       responses_or_sorry(web_action(action_id, frequency, WEB_USER_LAST_QUERY_ID)))
       /\ USER_SESSIONS' = IF action_id = "choose_agent_status"
                           THEN [USER_SESSIONS EXCEPT ![u] = "agent"]
                           ELSE USER_SESSIONS
  /\ UNCHANGED <<USER_QUERY_CACHE, query_results, WEB_USER_LAST_QUERY_ID, db_vars, turn_vars, dc_vars, more_vars>>

(* POST /api/chat with a message: lines 1016-1139 *)
web_chat ==
  /\ \E u \in Users, m \in MessageInputs :
       IF Strip(m.text) = "" \/ is_menu_text(m.text)
       THEN /\ turn' = Turn("web", "show_main_menu", m.text, m.meets.llm, <<>>, <<Menu>>)
            /\ UNCHANGED <<query_results, query_cache, WEB_USER_LAST_QUERY_ID>>
       ELSE \E d \in {IF m.meets.intent = "agent_status" \/ USER_SESSIONS[u] = "agent"
                      THEN handle_agent_mode(m.text, m.meets, engine, query_cache, clock)
                      ELSE run_main_logic(m.text, m.meets, USER_QUERY_CACHE[u], engine, query_cache,
                                          clock)} :
              /\ turn' = Turn("web",
                              IF m.meets.intent = "agent_status" \/ USER_SESSIONS[u] = "agent"
                              THEN "handle_agent_mode" ELSE "run_main_logic",
                              m.text, m.meets.llm, d.events, responses_or_sorry(web_say(d.said)))
              /\ query_results' = Saved(query_results, d.saved)
              /\ query_cache' = d.qcache
              /\ WEB_USER_LAST_QUERY_ID' = last_query_id(d.said, WEB_USER_LAST_QUERY_ID)
  /\ UNCHANGED <<USER_SESSIONS, USER_QUERY_CACHE, engine, clock, db_call>>
  /\ UNCHANGED <<turn_vars, dc_vars, more_vars>>

(* the state when the bot has started: no session, nothing marked correct,
   no result saved *)
ChatInit ==
  /\ USER_SESSIONS = [u \in Users |-> None]
  /\ USER_QUERY_CACHE = [u \in Users |-> {}]
  /\ query_results = {}
  /\ WEB_USER_LAST_QUERY_ID = None
  /\ turn = NoTurn

(* db = SimpleDatabase(PRESTO_CONNECTION) where the environment sets the
   connection string and create_engine returns an engine *)
DbConnected ==
  /\ engine = _create_engine("presto://warehouse:8080/hive", TRUE)
  /\ query_cache = <<>>
  /\ clock = 0
  /\ db_call = NoDbCall
-----------------------------------------------------------------------------
(* src/distinct_cache.py: DistinctCache, the one object distinct_cache, the
   threads that call it and the threads it starts *)

(* line 134: ttl_seconds of the object *)
ttl == 2592000

(* the dict a refresh made: the values of each column. at tells the time the
   refresh read the warehouse at; the dict itself does not hold it *)
Data(at, values) == [at |-> at, values |-> values]

(* {} *)
EmptyDict == Data(0, <<>>)

(* the truth value of a dict *)
NonEmpty(d) == d.values # <<>>

(* the cells pd.read_sql returns for the DISTINCT statement of a column *)
WarehouseDistincts == <<"Online", None, "NULL", "", "Offline">>

(* lines 82-89: the values kept of the cells *)
kept_values(cells) ==
  SelectSeq(cells, LAMBDA v : v # None /\ PyStr(v) # "" /\ Lower(PyStr(v)) # "null")

(* lines 75-93: fresh, when run_query returns the cells for each column (ok)
   or raises for each *)
_build_fresh(at, ok) ==
  Data(at, [k \in 1..Len(_pick_columns) |->
              <<_pick_columns[k], IF ok THEN kept_values(WarehouseDistincts) ELSE <<>>>>])

(* the file at cache_path: missing, not JSON (corrupt), or the payload *)
File(kind, timestamp, data) == [kind |-> kind, timestamp |-> timestamp, data |-> data]

NoFile == File("missing", 0, EmptyDict)

CorruptFile == File("corrupt", 0, EmptyDict)

Snapshot(timestamp, data) == File("json", timestamp, data)

(* line 50 *)
_is_fresh(t, last_loaded) == (t - last_loaded) < ttl

(* the threads that call get() and prewarm_async() *)
Callers == {"c1", "c2"}

(* the refreshes started are no more than MaxRefreshes, and the time that
   passes no more than MaxTtls times the ttl *)
MaxRefreshes == 2

MaxTtls == 1

(* time.time() when the object is made: more than the ttl since the epoch *)
StartTime == ttl + 1

(* a calling thread: the call it is in (op, none when it is in none), the
   line it is at, the payload _load read, and settled: the number of
   refreshes that had completed when its call of get() began, 0 when one was
   running *)
Caller(op, at, payload, settled) ==
  [op |-> op, pc |-> at, payload |-> payload, settled |-> settled]

IdleCaller == Caller("none", "idle", NoFile, 0)

(* a worker thread of _run: the line it is at and its fresh *)
Worker(at, fresh) == [pc |-> at, fresh |-> fresh]

Running == {w \in 1..Len(workers) : workers[w].pc # "done"}

Building == {w \in 1..Len(workers) : workers[w].pc = "build"}

At(c, op, at) == callers[c].op = op /\ callers[c].pc = at

Goto(c, at) == callers' = [callers EXCEPT ![c].pc = at]

CacheFrame == UNCHANGED <<turn_vars, db_vars, chat_vars, more_vars>>

(* a thread calls get() *)
get_call ==
  /\ \E c \in Callers :
       /\ callers[c].pc = "idle"
       /\ callers' = [callers EXCEPT ![c] =
            Caller("get", "check", NoFile, IF Running = {} THEN Len(workers) ELSE 0)]
  /\ UNCHANGED <<_data, _last_loaded, _prewarming, _lock, snapshot, wall, workers, refreshed,
                 queried_by>>
  /\ CacheFrame

(* a thread calls prewarm_async() *)
prewarm_call ==
  /\ \E c \in Callers :
       /\ callers[c].pc = "idle"
       /\ callers' = [callers EXCEPT ![c] =
            Caller("prewarm_async", "prewarm", NoFile, 0)]
  /\ UNCHANGED <<_data, _last_loaded, _prewarming, _lock, snapshot, wall, workers, refreshed,
                 queried_by>>
  /\ CacheFrame

(* line 116 *)
get_check ==
  /\ \E c \in Callers :
       /\ At(c, "get", "check")
       /\ Goto(c, IF ~NonEmpty(_data) \/ ~_is_fresh(wall, _last_loaded) THEN "load" ELSE "check2")
  /\ UNCHANGED <<_data, _last_loaded, _prewarming, _lock, snapshot, wall, workers, refreshed,
                 queried_by>>
  /\ CacheFrame

(* lines 32-35: the file is read *)
_load_read ==
  /\ \E c \in Callers :
       /\ At(c, "get", "load")
       /\ callers' = [callers EXCEPT
            ![c].pc = IF snapshot.kind = "missing" THEN "check2"
                      ELSE IF snapshot.kind = "corrupt" THEN "except_data"
                      ELSE "load_data",
            ![c].payload = IF snapshot.kind = "json" THEN snapshot ELSE NoFile]
  /\ UNCHANGED <<_data, _last_loaded, _prewarming, _lock, snapshot, wall, workers, refreshed,
                 queried_by>>
  /\ CacheFrame

(* line 36 *)
_load_data ==
  /\ \E c \in Callers :
       /\ At(c, "get", "load_data")
       /\ _data' = callers[c].payload.data
       /\ Goto(c, "load_stamp")
  /\ UNCHANGED <<_last_loaded, _prewarming, _lock, snapshot, wall, workers, refreshed, queried_by>>
  /\ CacheFrame

(* line 37 *)
_load_stamp ==
  /\ \E c \in Callers :
       /\ At(c, "get", "load_stamp")
       /\ _last_loaded' = callers[c].payload.timestamp
       /\ callers' = [callers EXCEPT ![c].pc = "check2", ![c].payload = NoFile]
  /\ UNCHANGED <<_data, _prewarming, _lock, snapshot, wall, workers, refreshed, queried_by>>
  /\ CacheFrame

(* lines 38-40: json.load raised *)
_load_except ==
  /\ \E c \in Callers :
       \/ /\ At(c, "get", "except_data")
          /\ _data' = EmptyDict
          /\ Goto(c, "except_stamp")
          /\ UNCHANGED _last_loaded
       \/ /\ At(c, "get", "except_stamp")
          /\ _last_loaded' = 0
          /\ Goto(c, "check2")
          /\ UNCHANGED _data
  /\ UNCHANGED <<_prewarming, _lock, snapshot, wall, workers, refreshed, queried_by>>
  /\ CacheFrame

(* lines 118-123 were get() to build the dict itself when it has none that
   is fresh *)
get_fresh_sync ==
  /\ \E c \in Callers :
       /\ At(c, "get", "check2")
       /\ callers' = [callers EXCEPT ![c] = IdleCaller]
       /\ IF NonEmpty(_data) /\ _is_fresh(wall, _last_loaded)
          THEN UNCHANGED <<_data, queried_by>>
          ELSE /\ _data' = _build_fresh(wall, TRUE)
               /\ queried_by' = queried_by \cup {"caller"}
  /\ UNCHANGED <<_last_loaded, _prewarming, _lock, snapshot, wall, workers, refreshed>>
  /\ CacheFrame

(* lines 118-119 *)
get_fresh ==
  /\ \E c \in Callers :
       /\ At(c, "get", "check2")
       /\ callers' = [callers EXCEPT ![c] =
            IF NonEmpty(_data) /\ _is_fresh(wall, _last_loaded)
            THEN IdleCaller
            ELSE [@ EXCEPT !.pc = "prewarm"]]
  /\ UNCHANGED <<_data, _last_loaded, _prewarming, _lock, snapshot, wall, workers, refreshed,
                 queried_by>>
  /\ CacheFrame

(* prewarm_async were it to start a thread whatever the flag *)
prewarm_async_unguarded ==
  /\ \E c \in Callers :
       /\ callers[c].pc = "prewarm"
       /\ _lock = 0
       /\ Len(workers) < MaxRefreshes
       /\ _prewarming' = TRUE
       /\ workers' = Append(workers, Worker("build", EmptyDict))
       /\ callers' = [callers EXCEPT ![c] =
            IF callers[c].op = "get" THEN [@ EXCEPT !.pc = "return"] ELSE IdleCaller]
  /\ UNCHANGED <<_data, _last_loaded, _lock, snapshot, wall, refreshed, queried_by>>
  /\ CacheFrame

(* lines 95-112, of get() at line 122 or of a call of its own: the flag is
   read and set with the lock held, and the thread is started *)
prewarm_async ==
  /\ \E c \in Callers :
       /\ callers[c].pc = "prewarm"
       /\ _lock = 0
       /\ IF _prewarming
          THEN UNCHANGED <<_prewarming, workers>>
          ELSE /\ Len(workers) < MaxRefreshes
               /\ _prewarming' = TRUE
               /\ workers' = Append(workers, Worker("build", EmptyDict))
       /\ callers' = [callers EXCEPT ![c] =
            IF callers[c].op = "get" THEN [@ EXCEPT !.pc = "return"] ELSE IdleCaller]
  /\ UNCHANGED <<_data, _last_loaded, _lock, snapshot, wall, refreshed, queried_by>>
  /\ CacheFrame

(* line 123 *)
get_return ==
  /\ \E c \in Callers :
       /\ At(c, "get", "return")
       /\ callers' = [callers EXCEPT ![c] = IdleCaller]
  /\ UNCHANGED <<_data, _last_loaded, _prewarming, _lock, snapshot, wall, workers, refreshed,
                 queried_by>>
  /\ CacheFrame

(* line 103: the worker's queries of the warehouse return *)
_run_build ==
  /\ \E w \in 1..Len(workers), ok \in BOOLEAN :
       /\ workers[w].pc = "build"
       /\ workers' = [workers EXCEPT ![w] = Worker("swap", _build_fresh(wall, ok))]
       /\ queried_by' = queried_by \cup {"worker"}
  /\ UNCHANGED <<_data, _last_loaded, _prewarming, _lock, snapshot, wall, callers, refreshed>>
  /\ CacheFrame

(* lines 104-105: the lock is taken and the dict swapped in *)
_run_swap ==
  /\ \E w \in 1..Len(workers) :
       /\ workers[w].pc = "swap"
       /\ _lock = 0
       /\ _lock' = w
       /\ _data' = workers[w].fresh
       /\ workers' = [workers EXCEPT ![w].pc = "save"]
  /\ UNCHANGED <<_last_loaded, _prewarming, snapshot, wall, callers, refreshed, queried_by>>
  /\ CacheFrame

(* lines 106 and 42-47, the lock held: the payload is written, or open
   raises and the file is left as it was, or the write raises and leaves a
   file that is not JSON; the exception is passed over *)
_save ==
  /\ \E w \in 1..Len(workers), written \in {"all", "none", "part"} :
       /\ workers[w].pc = "save"
       /\ _lock = w
       /\ snapshot' = IF written = "all" THEN Snapshot(wall, _data)
                      ELSE IF written = "none" THEN snapshot
                      ELSE CorruptFile
       /\ _lock' = 0
       /\ workers' = [workers EXCEPT ![w].pc = "finally"]
       /\ refreshed' = [at |-> wall, data |-> workers[w].fresh]
  /\ UNCHANGED <<_data, _last_loaded, _prewarming, wall, callers, queried_by>>
  /\ CacheFrame

(* _run were it to end without its finally clause *)
_run_finally_skipped ==
  /\ \E w \in 1..Len(workers) :
       /\ workers[w].pc = "finally"
       /\ workers' = [workers EXCEPT ![w] = Worker("done", EmptyDict)]
  /\ UNCHANGED <<_data, _last_loaded, _prewarming, _lock, snapshot, wall, callers, refreshed,
                 queried_by>>
  /\ CacheFrame

(* lines 107-109: the flag is reset and the thread ends *)
_run_finally ==
  /\ \E w \in 1..Len(workers) :
       /\ workers[w].pc = "finally"
       /\ _lock = 0
       /\ _prewarming' = FALSE
       /\ workers' = [workers EXCEPT ![w] = Worker("done", EmptyDict)]
  /\ UNCHANGED <<_data, _last_loaded, _lock, snapshot, wall, callers, refreshed, queried_by>>
  /\ CacheFrame

(* the ttl passes *)
TimePasses ==
  /\ wall + ttl <= StartTime + MaxTtls * ttl
  /\ wall' = wall + ttl
  /\ UNCHANGED <<_data, _last_loaded, _prewarming, _lock, snapshot, callers, workers, refreshed,
                 queried_by>>
  /\ CacheFrame

(* lines 18-29: the object as __init__ leaves it, the file as the run
   before left it *)
NewCache ==
  /\ _data = EmptyDict
  /\ _last_loaded = 0
  /\ _prewarming = FALSE
  /\ _lock = 0
  /\ wall = StartTime
  /\ callers = [c \in Callers |-> IdleCaller]
  /\ workers = <<>>
  /\ refreshed = [at |-> 0, data |-> EmptyDict]
  /\ queried_by = {}

(* the dict a refresh of the run before made *)
First == _build_fresh(1, TRUE)

InitialFiles ==
  {NoFile, CorruptFile, Snapshot(1, First),
   Snapshot(StartTime - ttl \div 2, Data(StartTime - ttl \div 2, First.values))}

CacheInit == NewCache /\ snapshot \in InitialFiles

CacheStart == NewCache /\ snapshot = NoFile
-----------------------------------------------------------------------------
(* src/database.py: the DataFrame objects run_query hands out and keeps.
   frames[id] is what the object id holds; in this part the table of an
   entry of query_cache is the id of the object the entry refers to *)

MaxFrames == 4

(* statements that pass the tests of run_query, lines 64-69 *)
FrameSql ==
  {sql \in {"SELECT city FROM sme_analytics.sme_leadbookingrevenue",
            "SELECT COUNT(*) FROM sme_analytics.sme_leadbookingrevenue",
            "DELETE FROM sme_analytics.sme_leadbookingrevenue"} :
     ~Statement(sql).empty /\ Statement(sql).valid}

(* what pd.read_sql returns of a statement *)
Fetched ==
  [sql \in FrameSql |-> IF Contains(sql, "COUNT") THEN Table(<<"count">>, <<<<"7">>>>) ELSE CityRows]

(* a caller's df.iloc[0, 0] = "edited" *)
Edited(df) == Table(df.columns, [df.rows EXCEPT ![1] = [@ EXCEPT ![1] = "edited"]])

NoHand == [status |-> "none", sql |-> None, use_cache |-> FALSE, hit |-> FALSE, frame |-> 0]

Handed(status, sql, use_cache, hit, frame) ==
  [status |-> status, sql |-> sql, use_cache |-> use_cache, hit |-> hit, frame |-> frame]

(* lines 72-77: the call is served from the cache *)
IsHit(sql, use_cache, cache, now) ==
  /\ use_cache
  /\ InCache(cache, _get_cache_key(sql))
  /\ _is_cache_valid(CacheGet(cache, _get_cache_key(sql)).timestamp, now)

(* df = db.run_query(sql, use_cache) of a statement that passes the tests of
   lines 64-69, lines 71-99: a hit returns cached_data, the object of the
   entry; a miss returns the object df of pd.read_sql and keeps df.copy(), a
   new object. fails tells that pd.read_sql raises *)
run_query_frame ==
  /\ \E sql \in FrameSql, use_cache \in BOOLEAN, fails \in BOOLEAN :
       /\ engine # None
       /\ IF IsHit(sql, use_cache, query_cache, clock)
          THEN /\ handed' = Handed("returned", sql, use_cache, TRUE,
                                   CacheGet(query_cache, _get_cache_key(sql)).table)
               /\ held' = held \cup {CacheGet(query_cache, _get_cache_key(sql)).table}
               /\ UNCHANGED <<frames, query_cache>>
          ELSE IF fails
          THEN /\ handed' = Handed("raised", sql, use_cache, FALSE, 0)
               /\ UNCHANGED <<frames, held, query_cache>>
          ELSE /\ Len(frames) + 2 <= MaxFrames
               /\ handed' = Handed("returned", sql, use_cache, FALSE, Len(frames) + 1)
               /\ held' = held \cup {Len(frames) + 1}
               /\ IF use_cache
                  THEN /\ frames' = frames \o <<Fetched[sql], Fetched[sql]>>
                       /\ query_cache' =
                            CachePut(query_cache, _get_cache_key(sql),
                                     [table |-> Len(frames) + 2, timestamp |-> clock])
                  ELSE /\ frames' = Append(frames, Fetched[sql])
                       /\ UNCHANGED query_cache
  /\ UNCHANGED <<engine, clock, db_call>>
  /\ UNCHANGED <<turn_vars, chat_vars, dc_vars, fb_vars, rp_vars, sub_vars>>

(* a caller changes, in place, a table it was handed *)
caller_edits ==
  /\ \E id \in held :
       /\ frames[id] # Edited(frames[id])
       /\ frames' = [frames EXCEPT ![id] = Edited(@)]
  /\ handed' = [handed EXCEPT !.status = "edited"]
  /\ UNCHANGED <<held, db_vars>>
  /\ UNCHANGED <<turn_vars, chat_vars, dc_vars, fb_vars, rp_vars, sub_vars>>

(* the cache's TTL passes, or all but a second of it *)
frame_tick ==
  /\ \E d \in {CACHE_TTL - 1, CACHE_TTL} :
       /\ clock + d <= MaxPeriods * CACHE_TTL
       /\ clock' = clock + d
  /\ UNCHANGED <<engine, query_cache, db_call, frame_vars>>
  /\ UNCHANGED <<turn_vars, chat_vars, dc_vars, fb_vars, rp_vars, sub_vars>>

FramesInit ==
  /\ frames = <<>>
  /\ held = {}
  /\ handed = NoHand
-----------------------------------------------------------------------------
(* src/business_logic_manager.py: the feedback log and the approved logic.
   fb_time is time.time() in half seconds *)

MaxFeedback == 2

MaxLogics == 2

MaxSeconds == 2

(* int(time.time()) *)
IntTime(half_seconds) == half_seconds \div 2

(* the context of a feedback: of a result (its query id, sql and
   explanation) or of a reason alone, which has no key sql *)
Context(query_id, sql, explanation) ==
  [query_id |-> query_id, sql |-> sql, explanation |-> explanation]

FeedbackContexts ==
  {Context("1f2e3d4c", "SELECT COUNT(*) FROM sme_analytics.sme_leadbookingrevenue", "Count of leads"),
   Context("1f2e3d4c", None, None)}

(* lines 137-145: the dict appended *)
FeedbackItem(id, user_id, original_query, feedback_text, context, status) ==
  [id |-> id, user_id |-> user_id, original_query |-> original_query,
   feedback_text |-> feedback_text, context |-> context, status |-> status]

(* lines 156-163: the dict appended to business_logics *)
ApprovedLogic(item) ==
  [original_query |-> item.original_query, logic_statement |-> item.feedback_text,
   sql |-> item.context.sql, explanation |-> item.context.explanation,
   approved_by |-> "human_expert"]

(* lines 134-147, without the save: the id returned and the log left *)
store_feedback(log, half_seconds, user_id, original_query, feedback_text, context) ==
  [feedback_id |-> IntTime(half_seconds),
   log |-> Append(log, FeedbackItem(IntTime(half_seconds), user_id, original_query,
                                    feedback_text, context, "pending"))]

(* line 151-152: the first item of the log with the id, 0 when there is
   none *)
FirstWithId(log, feedback_id) ==
  IF \E k \in 1..Len(log) : log[k].id = feedback_id
  THEN CHOOSE k \in 1..Len(log) :
         /\ log[k].id = feedback_id
         /\ \A j \in 1..(k - 1) : log[j].id # feedback_id
  ELSE 0

(* line 155 *)
AppendsLogic(item, status) == status = "approved" /\ Truthy(item.context.sql)

(* lines 149-167, without the saves: what is returned, the log and the
   business logics left, and which files are saved *)
update_feedback_status(log, logics, feedback_id, status) ==
  Let(FirstWithId(log, feedback_id), LAMBDA k :
    IF k = 0
    THEN [returned |-> FALSE, log |-> log, logics |-> logics,
          saves_logics |-> FALSE, saves_feedback |-> FALSE]
    ELSE [returned |-> TRUE,
          log |-> [log EXCEPT ![k].status = status],
          logics |-> IF AppendsLogic(log[k], status)
                     THEN Append(logics, ApprovedLogic(log[k])) ELSE logics,
          saves_logics |-> AppendsLogic(log[k], status),
          saves_feedback |-> TRUE])

(* the length of what json.dump writes of a str or of None *)
JsonLen(v) == IF v = None THEN 4 ELSE Len(v) + 2

(* the length of what json.dump writes of an item of the feedback log, the
   keys and a ten-digit id being 120 characters *)
ItemSize(item) ==
  120 + JsonLen(item.user_id) + JsonLen(item.original_query) + JsonLen(item.feedback_text)
      + JsonLen(item.context.query_id) + JsonLen(item.context.sql)
      + JsonLen(item.context.explanation) + JsonLen(item.status)

(* of an entry of the approved logic *)
LogicSize(entry) ==
  100 + JsonLen(entry.original_query) + JsonLen(entry.logic_statement) + JsonLen(entry.sql)
      + JsonLen(entry.explanation) + JsonLen(entry.approved_by)

RECURSIVE JsonSize(_)
(* the length of what json.dump writes of a list of either *)
JsonSize(data) ==
  IF data = <<>> THEN 2
  ELSE (IF "status" \in DOMAIN Head(data) THEN ItemSize(Head(data)) ELSE LogicSize(Head(data)))
       + JsonSize(Tail(data))

(* a JSON file: the list whose text its first bytes are, the number of its
   bytes, and whether the bytes are that text and no more *)
JsonFile(data, size, valid) == [data |-> data, size |-> size, valid |-> valid]

(* no file *)
NoJsonFile == JsonFile(<<>>, 0, FALSE)

(* open(file_path, 'w'): the file is there and empty *)
Truncated == JsonFile(<<>>, 0, FALSE)

(* the file after the text of data was written from its first byte on, by a
   writer that opened it when it held nothing: what the file held beyond the
   text stays *)
Overwritten(file, data) ==
  IF JsonSize(data) >= file.size THEN JsonFile(data, JsonSize(data), TRUE)
  ELSE JsonFile(data, file.size, FALSE)

(* lines 37-40, by one thread alone *)
_save_logics(data) == Overwritten(Truncated, data)

(* lines 26-35: the list read of a file, [] of none and of one that is not
   JSON *)
_load_logics(file) == IF file.valid THEN file.data ELSE <<>>

NoFbCall ==
  [op |-> "none", feedback_id |-> 0, status |-> "", returned |-> FALSE,
   log_before |-> <<>>, logics_before |-> <<>>]

FbCall(op, feedback_id, status, returned, log_before, logics_before) ==
  [op |-> op, feedback_id |-> feedback_id, status |-> status, returned |-> returned,
   log_before |-> log_before, logics_before |-> logics_before]

FbUsers == {"U1", "U2"}

(* the ids a button of the experts' channel may carry: the ones sent, and
   one of no feedback *)
ButtonIds == 0..(MaxSeconds + 1)

(* the threads that run the handlers: the web chat's and the one of a
   listener of Slack *)
Handlers == {"h1", "h2"}

(* where a handler is in its call: at (idle, saving: at open, dump or
   close), the files it has yet to save, and the text json.dump made *)
Handler(at, saves, buffer) == [at |-> at, saves |-> saves, buffer |-> buffer]

IdleHandler == Handler("idle", <<>>, <<>>)

(* business_logic_manager.store_feedback(...) of a handler, lines 134-147 *)
StoreFeedback ==
  /\ Len(feedback_log) < MaxFeedback
  /\ \E u \in FbUsers, context \in FeedbackContexts :
       \E s \in {store_feedback(feedback_log, fb_time, u, "Query ID: " \o context.query_id,
                                "wrong city split", context)} :
         /\ feedback_log' = s.log
         /\ feedback_file' = _save_logics(s.log)
         /\ fb_call' = FbCall("store", s.feedback_id, "pending", TRUE, feedback_log,
                              business_logics)
  /\ UNCHANGED <<business_logics, logic_file, fb_time, fb_threads>>
  /\ UNCHANGED <<turn_vars, db_vars, chat_vars, dc_vars, frame_vars, rp_vars, sub_vars>>

(* what a button of the experts' channel does: lines 1461-1480 of main.py and
   149-167 *)
ButtonPressed(status) ==
  /\ \E feedback_id \in ButtonIds :
       \E u \in {update_feedback_status(feedback_log, business_logics, feedback_id, status)} :
         /\ Len(u.logics) <= MaxLogics
         /\ feedback_log' = u.log
         /\ business_logics' = u.logics
         /\ feedback_file' = IF u.saves_feedback THEN _save_logics(u.log) ELSE feedback_file
         /\ logic_file' = IF u.saves_logics THEN _save_logics(u.logics) ELSE logic_file
         /\ fb_call' = FbCall("update", feedback_id, status, u.returned, feedback_log,
                              business_logics)
  /\ UNCHANGED <<fb_time, fb_threads>>
  /\ UNCHANGED <<turn_vars, db_vars, chat_vars, dc_vars, frame_vars, rp_vars, sub_vars>>

(* main.py lines 1461-1469 *)
handle_approve_feedback == ButtonPressed("approved")

(* main.py lines 1472-1480 *)
handle_reject_feedback == ButtonPressed("rejected")

(* half a second passes *)
HalfSecond ==
  /\ fb_time < 2 * MaxSeconds
  /\ fb_time' = fb_time + 1
  /\ UNCHANGED <<feedback_log, business_logics, feedback_file, logic_file, fb_call, fb_threads>>
  /\ UNCHANGED <<turn_vars, db_vars, chat_vars, dc_vars, frame_vars, rp_vars, sub_vars>>

(* BusinessLogicManager() where neither file exists: lines 21-24 *)
FeedbackInit ==
  /\ feedback_log = <<>>
  /\ business_logics = <<>>
  /\ feedback_file = NoJsonFile
  /\ logic_file = NoJsonFile
  /\ fb_time = 2
  /\ fb_call = NoFbCall
  /\ fb_threads = [h \in Handlers |-> IdleHandler]
-----------------------------------------------------------------------------
(* src/business_logic_manager.py: two handlers calling the manager at a
   time, a step of the one between the steps of the other *)

FbFrame == UNCHANGED <<turn_vars, db_vars, chat_vars, dc_vars, frame_vars, rp_vars, sub_vars>>

(* lines 136-145 of store_feedback in a thread: the id is taken and the item
   appended; the save is yet to come *)
store_feedback_begin ==
  /\ \E h \in Handlers, context \in FeedbackContexts :
       /\ fb_threads[h].at = "idle"
       /\ Len(feedback_log) < MaxFeedback
       /\ \E s \in {store_feedback(feedback_log, fb_time, IF h = "h1" THEN "U1" ELSE "U2",
                                   "Query ID: " \o context.query_id, "wrong city split",
                                   context)} :
            /\ feedback_log' = s.log
            /\ fb_call' = FbCall("store", s.feedback_id, "pending", TRUE, feedback_log,
                                 business_logics)
       /\ fb_threads' = [fb_threads EXCEPT ![h] = Handler("open", <<"feedback">>, <<>>)]
  /\ UNCHANGED <<business_logics, feedback_file, logic_file, fb_time>>
  /\ FbFrame

(* lines 151-163 of update_feedback_status in a thread: the status is set
   and the logic appended; the saves are yet to come *)
update_feedback_status_begin ==
  /\ \E h \in Handlers, feedback_id \in ButtonIds, status \in {"approved", "rejected"} :
       /\ fb_threads[h].at = "idle"
       /\ \E u \in {update_feedback_status(feedback_log, business_logics, feedback_id, status)} :
            /\ Len(u.logics) <= MaxLogics
            /\ feedback_log' = u.log
            /\ business_logics' = u.logics
            /\ fb_call' = FbCall("update", feedback_id, status, u.returned, feedback_log,
                                 business_logics)
            /\ fb_threads' =
                 [fb_threads EXCEPT ![h] =
                    IF ~u.saves_feedback THEN IdleHandler
                    ELSE Handler("open",
                                 (IF u.saves_logics THEN <<"logic">> ELSE <<>>) \o <<"feedback">>,
                                 <<>>)]
  /\ UNCHANGED <<feedback_file, logic_file, fb_time>>
  /\ FbFrame

(* line 39: open(file_path, 'w') *)
_save_open ==
  /\ \E h \in Handlers :
       /\ fb_threads[h].at = "open"
       /\ IF Head(fb_threads[h].saves) = "feedback"
          THEN feedback_file' = Truncated /\ UNCHANGED logic_file
          ELSE logic_file' = Truncated /\ UNCHANGED feedback_file
       /\ fb_threads' = [fb_threads EXCEPT ![h].at = "dump"]
  /\ UNCHANGED <<feedback_log, business_logics, fb_time, fb_call>>
  /\ FbFrame

(* line 40: json.dump(data, f), into the buffer of f *)
_save_dump ==
  /\ \E h \in Handlers :
       /\ fb_threads[h].at = "dump"
       /\ fb_threads' =
            [fb_threads EXCEPT ![h].at = "close",
                               ![h].buffer = IF Head(fb_threads[h].saves) = "feedback"
                                             THEN feedback_log ELSE business_logics]
  /\ UNCHANGED <<feedback_log, business_logics, feedback_file, logic_file, fb_time, fb_call>>
  /\ FbFrame

(* the end of the with statement of line 39: the buffer is written from the
   first byte of the file on, and the next file is saved or the call
   returns *)
_save_close ==
  /\ \E h \in Handlers :
       /\ fb_threads[h].at = "close"
       /\ IF Head(fb_threads[h].saves) = "feedback"
          THEN /\ feedback_file' = Overwritten(feedback_file, fb_threads[h].buffer)
               /\ UNCHANGED logic_file
          ELSE /\ logic_file' = Overwritten(logic_file, fb_threads[h].buffer)
               /\ UNCHANGED feedback_file
       /\ fb_threads' =
            [fb_threads EXCEPT ![h] =
               IF Tail(fb_threads[h].saves) = <<>> THEN IdleHandler
               ELSE Handler("open", Tail(fb_threads[h].saves), <<>>)]
  /\ UNCHANGED <<feedback_log, business_logics, fb_time, fb_call>>
  /\ FbFrame
-----------------------------------------------------------------------------
(* src/main.py: SimplifiedBot.resolve_products *)

(* line 189: the pattern r"\\b" + re.escape(a).replace("\\ ", "\\s+") + r"\\b"
   is, as a regular expression, the character \ and the letter b, the alias
   with one or more white-space characters for each of its blanks, and \ and
   b again. k is the position in the alias a and i the one in the text t,
   from which the rest is to match *)
RECURSIVE AliasMatchesAt(_, _, _, _)
AliasMatchesAt(t, i, a, k) ==
  IF k > Len(a) THEN MatchAt(t, i, "\\b")
  ELSE IF Char(a, k) = " "
  THEN /\ i <= Len(t)
       /\ IsSpace(Char(t, i))
       /\ AliasMatchesAt(t, RunEnd(t, i, IsSpace), a, k + 1)
  ELSE /\ i <= Len(t)
       /\ Char(t, i) = Char(a, k)
       /\ AliasMatchesAt(t, i + 1, a, k + 1)

(* line 190: _re.search(pattern, t, flags=_re.IGNORECASE), t and the alias
   being lower-cased *)
PatternFound(t, a) ==
  \E i \in 1..(Len(t) - 1) : MatchAt(t, i, "\\b") /\ AliasMatchesAt(t, i + 2, a, 1)

(* lines 168-196: no alias of PRODUCTS is empty and every id is an int *)
resolve_products(text) ==
  Let(Lower(TextOrEmpty(text)), LAMBDA t :
    SortSet({PRODUCTS[n][2] : n \in {m \in 1..Len(PRODUCTS) : PatternFound(t, Lower(PRODUCTS[m][1]))}}))

(* the texts of the calls: up to three of these words, and the queries of
   test_product_detection *)
ProductWords == <<"ghi", "wc", "fire", "marine", "and", "Fire  Insurance", "\\bghi\\b", "xyz">>

ResolveTexts ==
  {None, "", "   ", "number of leads in ghi", "fire insurance bookings", "marine leads",
   "wc bookings", "fire and marine bookings", "number of leads in dws", "rest insurance"}
  \cup {ProductWords[i] : i \in 1..Len(ProductWords)}
  \cup {ProductWords[i] \o " " \o ProductWords[j] : i, j \in 1..Len(ProductWords)}
  \cup {ProductWords[i] \o " " \o ProductWords[j] \o " " \o ProductWords[k] :
          i, j, k \in 1..4}

(* what resolve_products returns of each text *)
Resolved == [text \in ResolveTexts |-> resolve_products(text)]

NoResolve == [status |-> "none", text |-> None, returned |-> <<>>]

(* detected_products = bot.resolve_products(query) *)
ResolveProducts ==
  /\ \E text \in ResolveTexts :
       rp_call' = [status |-> "returned", text |-> text, returned |-> Resolved[text]]
  /\ UNCHANGED <<turn_vars, db_vars, chat_vars, dc_vars, frame_vars, fb_vars, sub_vars>>

ProductsInit == rp_call = NoResolve
-----------------------------------------------------------------------------
(* src/subscription_manager.py: SubscriptionManager. sub_time is time.time()
   in half seconds, in UTC *)

MaxSubscriptions == 2

MaxAdds == 3

MaxSubSeconds == 2

HOUR == 3600

DAY == 86400

(* datetime.weekday() of the day a second of the epoch lies in, Monday being
   0: the first day of 1970 was a Thursday *)
Weekday(seconds) == (3 + seconds \div DAY) % 7

(* now.replace(hour=9, minute=0, second=0, microsecond=0).timestamp() *)
NineOClock(seconds) == (seconds \div DAY) * DAY + 9 * HOUR

(* lines 30-51, now being the time in half seconds; the timestamp in whole
   seconds *)
_calculate_next_run(frequency, now) ==
  Let(IntTime(now), LAMBDA seconds :
    IF frequency = "hourly" THEN seconds + HOUR
    ELSE IF frequency = "daily"
    THEN (IF seconds >= NineOClock(seconds) THEN NineOClock(seconds) + DAY ELSE NineOClock(seconds))
    ELSE IF frequency = "weekly"
    THEN Let((7 - Weekday(seconds)) % 7, LAMBDA days_until_monday :
           NineOClock(seconds)
           + DAY * (IF days_until_monday = 0 /\ (seconds % DAY) \div HOUR >= 9
                    THEN 7 ELSE days_until_monday))
    ELSE seconds + DAY)

(* lines 58-68: the dict appended; created_at is time.time() and nth the
   number of the call of add_subscription that made the dict *)
Subscription(id, user_id, channel_id, query_context, frequency, now, nth) ==
  [id |-> id, user_id |-> user_id, channel_id |-> channel_id, sql |-> query_context.sql,
   explanation |-> query_context.explanation, frequency |-> frequency, created_at |-> now,
   last_run_at |-> None, next_run_at |-> _calculate_next_run(frequency, now), nth |-> nth]

(* lines 53-72, without the save *)
add_subscription(subs, user_id, channel_id, query_context, frequency, now, nth) ==
  [new_id |-> IntTime(now),
   subscriptions |-> Append(subs, Subscription(IntTime(now), user_id, channel_id, query_context,
                                               frequency, now, nth))]

(* lines 74-81, without the save *)
remove_subscription(subs, subscription_id) ==
  Let(SelectSeq(subs, LAMBDA s : s.id # subscription_id), LAMBDA kept :
    [returned |-> Len(kept) < Len(subs), subscriptions |-> kept, saves |-> Len(kept) < Len(subs)])

(* lines 83-85 *)
get_user_subscriptions(subs, user_id) == SelectSeq(subs, LAMBDA s : s.user_id = user_id)

SubUsers == {"test_user_123", "U2"}

Frequencies == {"hourly", "daily", "weekly", "monthly"}

TestQueryContext == [sql |-> "SELECT COUNT(*) FROM test", explanation |-> "Test query"]

NoSubCall ==
  [op |-> "none", user_id |-> None, id |-> 0, nth |-> 0, returned |-> FALSE, listed |-> <<>>,
   before |-> <<>>]

SubCall(op, user_id, id, nth, returned, listed, before) ==
  [op |-> op, user_id |-> user_id, id |-> id, nth |-> nth, returned |-> returned,
   listed |-> listed, before |-> before]

SubFrame == UNCHANGED <<turn_vars, db_vars, chat_vars, dc_vars, frame_vars, fb_vars, rp_vars>>

(* sub_id = subscription_manager.add_subscription(...), and
   get_user_subscriptions(user_id) after it *)
AddSubscription ==
  /\ Len(subscriptions) < MaxSubscriptions
  /\ sub_count < MaxAdds
  /\ \E u \in SubUsers, frequency \in Frequencies :
       \E a \in {add_subscription(subscriptions, u, "C1", TestQueryContext, frequency, sub_time,
                                  sub_count + 1)} :
         /\ subscriptions' = a.subscriptions
         /\ subscriptions_file' = a.subscriptions
         /\ sub_call' = SubCall("add", u, a.new_id, sub_count + 1, TRUE,
                                get_user_subscriptions(a.subscriptions, u), subscriptions)
  /\ sub_count' = sub_count + 1
  /\ UNCHANGED sub_time
  /\ SubFrame

(* subscription_manager.remove_subscription(sub_id) with the id the add
   that returned last gave, or with an id that may be of no subscription *)
RemoveSubscription ==
  /\ \E id \in {sub_call.id} \cup 0..(MaxSubSeconds + 1) :
       \E r \in {remove_subscription(subscriptions, id)} :
         /\ subscriptions' = r.subscriptions
         /\ subscriptions_file' = IF r.saves THEN r.subscriptions ELSE subscriptions_file
         /\ sub_call' = SubCall("remove", sub_call.user_id, id,
                                IF sub_call.op = "add" /\ id = sub_call.id THEN sub_call.nth ELSE 0,
                                r.returned, <<>>, subscriptions)
  /\ UNCHANGED <<sub_time, sub_count>>
  /\ SubFrame

(* half a second passes *)
SubHalfSecond ==
  /\ sub_time < 2 * MaxSubSeconds
  /\ sub_time' = sub_time + 1
  /\ UNCHANGED <<subscriptions, subscriptions_file, sub_call, sub_count>>
  /\ SubFrame

(* SubscriptionManager() without subscriptions.json: lines 12-18 *)
SubscriptionsInit ==
  /\ subscriptions = <<>>
  /\ subscriptions_file = <<>>
  /\ sub_time = 2
  /\ sub_count = 0
  /\ sub_call = NoSubCall
-----------------------------------------------------------------------------
(* The specifications *)

vars == <<pc, user_text, llm, today, cand, extracted, build_arg, entities, result,
          engine, query_cache, clock, db_call,
          USER_SESSIONS, USER_QUERY_CACHE, query_results, WEB_USER_LAST_QUERY_ID, turn,
          _data, _last_loaded, _prewarming, _lock, snapshot, wall, callers, workers, refreshed,
          queried_by, frames, held, handed,
          feedback_log, business_logics, feedback_file, logic_file, fb_time, fb_call, fb_threads,
          rp_call, subscriptions, subscriptions_file, sub_time, sub_count, sub_call>>

MoreInit == FramesInit /\ FeedbackInit /\ ProductsInit /\ SubscriptionsInit

Init == TurnInit /\ DbInit /\ ChatInit /\ CacheStart /\ MoreInit

(* a turn of the pipeline: extract, then build_sql *)
Next == Extract \/ BuildExtracted \/ Build \/ Done

Spec == Init /\ [][Next]_vars

(* the calls on the database object *)
NextDb == NewDatabase \/ RunQuery \/ DbReturn \/ Tick \/ ClearCache

SpecDb == Init /\ [][NextDb]_vars


InitChat == TurnInit /\ DbConnected /\ ChatInit /\ CacheStart /\ MoreInit

(* the events of the chat: a mention on Slack, a button of Slack, a request
   of the web chat *)
NextChat ==
  \/ handle_message
  \/ handle_show_menu
  \/ handle_show_help
  \/ handle_end_session
  \/ handle_choose_metrics
  \/ handle_choose_agent_status
  \/ handle_download_excel
  \/ handle_subscribe_alerts
  \/ handle_mark_correct
  \/ handle_mark_wrong
  \/ web_chat_action
  \/ web_chat

SpecChat == InitChat /\ [][NextChat]_vars

InitCache == TurnInit /\ DbInit /\ ChatInit /\ CacheInit /\ MoreInit

(* the steps of the threads that call the cache and of its workers, and the
   passing of time *)
NextCache ==
  \/ get_call
  \/ prewarm_call
  \/ get_check
  \/ _load_read
  \/ _load_data
  \/ _load_stamp
  \/ _load_except
  \/ get_fresh
  \/ prewarm_async
  \/ get_return
  \/ _run_build
  \/ _run_swap
  \/ _save
  \/ _run_finally
  \/ TimePasses

SpecCache == InitCache /\ [][NextCache]_vars

InitFrames == TurnInit /\ DbConnected /\ ChatInit /\ CacheStart /\ MoreInit

(* the calls of run_query on the DataFrame objects, and what the callers do
   to the tables they hold *)
NextFrames == run_query_frame \/ caller_edits \/ frame_tick

SpecFrames == InitFrames /\ [][NextFrames]_vars

(* the calls on the business logic manager, one at a time *)
NextFeedback == StoreFeedback \/ handle_approve_feedback \/ handle_reject_feedback \/ HalfSecond

SpecFeedback == Init /\ [][NextFeedback]_vars

(* the handlers calling the manager at a time *)
NextHandlers ==
  \/ store_feedback_begin
  \/ update_feedback_status_begin
  \/ _save_open
  \/ _save_dump
  \/ _save_close

SpecHandlers == Init /\ [][NextHandlers]_vars

(* the calls of resolve_products *)
NextProducts == ResolveProducts

SpecProducts == Init /\ [][NextProducts]_vars

(* the calls on the subscription manager *)
NextSubs == AddSubscription \/ RemoveSubscription \/ SubHalfSecond

SpecSubs == Init /\ [][NextSubs]_vars

(* the cache where a thread of _run that can take a step takes one in the
   end: the scheduler leaves no thread that is ready waiting for ever *)
SpecRefresh ==
  /\ Init
  /\ [][NextCache]_vars
  /\ WF_vars(_run_build)
  /\ WF_vars(_run_swap)
  /\ WF_vars(_save)
  /\ WF_vars(_run_finally)
-----------------------------------------------------------------------------
(* Claims about build_sql *)

Built == pc = "built" /\ result.sql # None

DANGEROUS == {"DROP", "DELETE", "INSERT", "UPDATE", "ALTER", "CREATE", "TRUNCATE"}

(* the text between SELECT and FROM, and the text after GROUP BY *)
SelectList(sql) == Slice(sql, 8, FindFrom(sql, 1, " FROM ") - 1)

(* the text of the WHERE clause of a statement *)
WhereText(sql) ==
  LET w == FindFrom(sql, 1, " WHERE ")
      g == FindFrom(sql, 1, " GROUP BY ")
  IN IF w = 0 THEN "" ELSE Slice(sql, w + 7, IF g = 0 THEN Len(sql) ELSE g - 1)

(* every occurrence of FROM in the text is followed by the allowed table *)
OnlyAllowedTable(sql) ==
  \A i \in 1..Len(sql) :
    MatchAt(sql, i, " FROM ") => MatchAt(sql, i + 6, ALLOWED_TABLE)

(* C1: every SQL that build_sql returns starts with SELECT, contains none of
   the mutating keywords anywhere in its text (as the gateway looks for them,
   in the upper-cased text), references the allowed table and no other, and
   does not end with a semicolon. *)
C1_SqlSafety ==
  Built =>
    /\ StartsWith(result.sql, "SELECT")
    /\ \A kw \in DANGEROUS : ~Contains(Upper(result.sql), kw)
    /\ Contains(result.sql, ALLOWED_TABLE)
    /\ OnlyAllowedTable(result.sql)
    /\ ~EndsWith(result.sql, ";")

HasRange(e) == Truthy(e.time.start_date) /\ Truthy(e.time.end_date)

NamedPattern(e) == _build_time_where(e.time.key, date_column(e))

RangeConditions(e, col) ==
  <<"DATE(" \o col \o ") >= DATE '" \o e.time.start_date \o "'",
    "DATE(" \o col \o ") <= DATE '" \o e.time.end_date \o "'">>

(* the metric expressions of the SELECT list include the bookings metric *)
SelectsBookings(sql) == Contains(SelectList(sql), DictGet(SQL_PATTERNS, "bookings"))

(* C6: the time filter and the DATE_TRUNC bucket are on bookingdate if the
   bookings metric is in the SELECT list, and on leaddate otherwise. *)
C6_DateColumnFollowsSelectedMetrics ==
  Built =>
    LET expected == IF SelectsBookings(result.sql) THEN "bookingdate" ELSE "leaddate"
        other == IF expected = "bookingdate" THEN "leaddate" ELSE "bookingdate"
        e == build_arg
    IN /\ ~Contains(result.sql, other)
       /\ (HasRange(e) \/ NamedPattern(e) # <<>> \/ HasBucket(e)) => Contains(result.sql, expected)

(* a column of the schema registry that is not high-PII *)
UsableColumn(c) == InSchema(c) /\ TABLE_SCHEMA[c].pii_level # "high"

InputColumns(e) ==
  {e.dimensions[i] : i \in 1..Len(e.dimensions)}
  \cup {e.filters[i][1] : i \in 1..Len(e.filters)}

(* C7: every column used as a GROUP BY dimension or as a filter key exists in
   the schema registry and is not high-PII. *)
C7_ColumnsValidated ==
  Built =>
    \A c \in InputColumns(build_arg) \ {""} :
      Contains(result.sql, c) => UsableColumn(c)

(* the negation grammar of a list-valued filter, read off the SQL text *)
CountOcc(s, sub) == Cardinality({i \in 1..Len(s) : MatchAt(s, i, sub)})

(* the parenthesized group of col in the WHERE clause: it ends where the next
   AND-combined clause begins, or with the clause *)
GroupText(sql, col) ==
  LET where == WhereText(sql)
      start == FindFrom(where, 1, "(" \o col \o " ")
      next == FindFrom(where, start, ") AND ")
  IN Slice(where, start, IF next = 0 THEN Len(where) ELSE next)

TokenIsNull(t) == t # None /\ Strip(Lower(t)) = "null"
TokenIsNotNull(t) == t # None /\ Strip(Lower(t)) = "not null"
TokenIsLiteral(t) == t # None /\ ~TokenIsNull(t) /\ ~TokenIsNotNull(t)

TokenNegated(t) ==
  \/ Lower(Slice(Strip(t), 1, 4)) = "not "
  \/ Slice(Strip(t), 1, 2) \in {"!=", "<>"}

(* the literal a token names: the token without its negation prefix *)
TokenLiteral(t) ==
  LET s == Strip(t)
  IN IF Lower(Slice(s, 1, 4)) = "not " THEN Strip(Slice(s, 5, Len(s)))
     ELSE IF Slice(s, 1, 2) \in {"!=", "<>"} THEN Strip(Slice(s, 3, Len(s)))
     ELSE s

(* a literal as SQL: a number as it is, a string quoted with its quotes doubled *)
RenderLiteral(lit) ==
  IF IsNumericLiteral(lit) THEN lit ELSE "'" \o Replace(lit, "'", "''") \o "'"

ListsLiteral(group, lit) ==
  Contains(group, "(" \o RenderLiteral(lit) \o ")")
  \/ Contains(group, "(" \o RenderLiteral(lit) \o ", ")
  \/ Contains(group, ", " \o RenderLiteral(lit) \o ")")
  \/ Contains(group, ", " \o RenderLiteral(lit) \o ", ")

TokenListFilters(e) ==
  {i \in 1..Len(e.filters) :
     /\ FilterColumnAccepted(e.filters[i][1])
     /\ ~e.filters[i][2].scalar
     /\ \E k \in 1..Len(e.filters[i][2].items) : e.filters[i][2].items[k] # None}

FilterGroupFollowsGrammar(sql, col, tokens) ==
  LET group == GroupText(sql, col)
      toks == {tokens[k] : k \in 1..Len(tokens)}
      positive == {t \in toks : TokenIsLiteral(t) /\ ~TokenNegated(t)}
      negative == {t \in toks : TokenIsLiteral(t) /\ TokenNegated(t)}
  IN /\ CountOcc(sql, "(" \o col \o " ") = 1
     /\ StartsWith(group, "(") /\ EndsWith(group, ")")
     /\ CountOcc(group, " OR ") + 1 <= 4
     /\ Contains(group, col \o " IN (") <=> positive # {}
     /\ Contains(group, col \o " NOT IN (") <=> negative # {}
     /\ \A t \in positive \cup negative : ListsLiteral(group, TokenLiteral(t))
     /\ Contains(group, col \o " IS NULL") <=> \E t \in toks : TokenIsNull(t)
     /\ Contains(group, col \o " IS NOT NULL") <=> \E t \in toks : TokenIsNotNull(t)

(* C8: each accepted filter column whose value is a list of tokens gets exactly
   one parenthesized OR-group: IN for the positive literals, NOT IN for the
   negated ones, IS NULL / IS NOT NULL iff the null / not null token is there,
   numbers unquoted and strings quoted, at most four sub-clauses. *)
C8_FilterNegationGrammar ==
  Built =>
    \A i \in TokenListFilters(build_arg) :
      FilterGroupFollowsGrammar(result.sql, build_arg.filters[i][1],
                                build_arg.filters[i][2].items)

(* SELECT / GROUP BY consistency *)
MetricExpressions == {SQL_PATTERNS[i][2] : i \in 1..Len(SQL_PATTERNS)}

(* a SELECT item without its alias *)
ItemExpression(item) ==
  LET hits == {i \in 1..Len(item) : MatchAt(item, i, " AS ")}
  IN IF hits = {} THEN item
     ELSE Slice(item, 1, (CHOOSE i \in hits : \A j \in hits : j <= i) - 1)

GroupByText(sql) ==
  LET p == FindFrom(sql, 1, " GROUP BY ")
  IN IF p = 0 THEN None ELSE Slice(sql, p + 10, Len(sql))

AcceptedDimensions(e) ==
  {e.dimensions[i] : i \in 1..Len(e.dimensions)} \cap {c \in DOMAIN TABLE_SCHEMA : UsableColumn(c)}

(* C9: each non-aggregate SELECT item (accepted dimension, DATE_TRUNC bucket,
   product-name CASE) is a GROUP BY key with the identical expression text, and
   the statement has a GROUP BY clause exactly when there is such an item. *)
C9_SelectGroupByConsistent ==
  Built =>
    LET e == build_arg
        items == select_parts(e)
        keys == group_by(e)
        nonagg == {i \in 1..Len(items) : items[i] \notin MetricExpressions}
    IN /\ SelectList(result.sql) = Join(items, ", ")
       /\ GroupByText(result.sql) = (IF keys = <<>> THEN None ELSE Join(keys, ", "))
       /\ \A i \in nonagg : InSeq(ItemExpression(items[i]), keys)
       /\ (keys # <<>>) <=> (nonagg # {})
       /\ \A d \in AcceptedDimensions(e) : InSeq(d, items) /\ InSeq(d, keys)
       /\ e.time.granularity \in {"month", "week"} =>
            \E i \in nonagg :
              \E col \in {"leaddate", "bookingdate"} :
                ItemExpression(items[i]) = "DATE_TRUNC('" \o e.time.granularity \o "', " \o col \o ")"
       /\ "investmenttypeid" \in AcceptedDimensions(e) =>
            \E i \in nonagg :
              /\ EndsWith(items[i], " AS product_name")
              /\ StartsWith(items[i], "CASE WHEN investmenttypeid = ")
              /\ InSeq(ItemExpression(items[i]), keys)

C9_Witness ==
  /\ Built
  /\ InSeq("investmenttypeid", build_arg.dimensions)
  /\ build_arg.time.granularity = "month"
  /\ Contains(result.sql, " END AS product_name, DATE_TRUNC('month', leaddate) AS month, ")
  /\ EndsWith(result.sql, ", DATE_TRUNC('month', leaddate), " \o product_case_group)

-----------------------------------------------------------------------------
(* Claims about extract *)

(* extract has returned and nothing has been done with the record yet *)
Extracted == pc = "extracted"

Aliases(pid) == {PRODUCTS[i][1] : i \in {j \in 1..Len(PRODUCTS) : PRODUCTS[j][2] = pid}}

(* some alias of pid stands in the lower-cased text between word boundaries *)
Grounded(text, pid) ==
  \E a \in Aliases(pid) : OccursAsWord(Lower(TextOrEmpty(text)), a)

(* the ids the classifier proposed, as line 140 reads them *)
Proposed == {coerce_products(llm.draft.products)[k] :
               k \in 1..Len(coerce_products(llm.draft.products))}

Returns(products) == {products[k] : k \in 1..Len(products)}

(* the classifier answered with a JSON object whose products can be read *)
Classified == llm.kind = "dict" /\ ~ProductsRaise(llm.draft.products)

(* C3: every id in the products of the record extract returns has an alias
   of the product alias map that occurs in the lower-cased input text
   between word boundaries, whatever the classifier drafted. *)
C3_ProductsGrounded ==
  Extracted => \A pid \in Returns(extracted.data.products) : Grounded(user_text, pid)

(* an id the text does not name was drafted next to one it names, and only
   the named one is returned *)
C3_Witness ==
  /\ Extracted
  /\ user_text = "fire insurance bookings this month"
  /\ Classified
  /\ Proposed = {1, 5}
  /\ extracted.data.products = <<5>>

(* extract returned the record it made of the draft, not the fallback *)
Succeeded == Classified /\ ~extract_try(user_text, llm, today, cand).raised

AsksAllProducts(text) == Contains(Lower(TextOrEmpty(text)), "all products")

(* the example: ghi and wc are aliases of the products 1 and 19 *)
ExampleHolds ==
  (/\ user_text = "revenue for ghi and wc product wise"
   /\ Proposed = {1, 19})
  => extracted.data.products = <<1, 19>>

(* C4: a proposed id is kept exactly when some alias of it occurs in the
   input between word boundaries, so that the products 1 and 19 proposed for
   revenue for ghi and wc product wise are both returned; and the products
   are empty when the input contains all products. *)
C4_KeepsExactlyGrounded ==
  (Extracted /\ Succeeded) =>
    /\ IF AsksAllProducts(user_text) THEN extracted.data.products = <<>>
       ELSE Returns(extracted.data.products) = {pid \in Proposed : Grounded(user_text, pid)}
    /\ ExampleHolds

-----------------------------------------------------------------------------
(* time precedence *)

(* the expression the time pattern catalog has for key, on the column col *)
NamedExpression(key, col) ==
  IF Truthy(key) /\ Truthy(DictGet(TIME_PATTERNS, key))
  THEN Replace(Replace(DictGet(TIME_PATTERNS, key), "leaddate", col), "bookingdate", col)
  ELSE None

DateColumns == {"leaddate", "bookingdate"}

RangeWins(sql, start_date, end_date, key) ==
  /\ \E col \in DateColumns :
       Contains(WhereText(sql), "DATE(" \o col \o ") >= DATE '" \o start_date \o "' AND "
                                  \o "DATE(" \o col \o ") <= DATE '" \o end_date \o "'")
  /\ \A col \in DateColumns :
       NamedExpression(key, col) # None => ~Contains(sql, NamedExpression(key, col))

(* the record build_sql was called with is the one extract returned, with a
   range that the classifier's draft did not have: extract took it from the
   text *)
RangeFromText ==
  /\ pc = "built"
  /\ llm.kind = "dict"
  /\ build_arg = extracted.data
  /\ HasRange(extracted.data)
  /\ ~(llm.draft.time.shape = "dict" /\ HasRange(llm.draft))

DraftKey == IF llm.draft.time.shape = "dict" THEN llm.draft.time.key ELSE None

(* C5: when the record carries start_date, end_date and a named key, the WHERE
   clause has the two range conditions and not the named expression of the
   key; and when extract took a range from the text, the statement built from
   its record has that range and not the expression of the key the classifier
   drafted. *)
C5_RangeTakesPrecedence ==
  /\ (Built /\ HasRange(build_arg) /\ Truthy(build_arg.time.key)) =>
       RangeWins(result.sql, build_arg.time.start_date, build_arg.time.end_date,
                 build_arg.time.key)
  /\ (Built /\ RangeFromText) =>
       RangeWins(result.sql, extracted.data.time.start_date, extracted.data.time.end_date,
                 DraftKey)

(* the classifier drafted last week for a text with a range of months *)
C5_Witness ==
  /\ Built /\ RangeFromText
  /\ user_text = "Leads from Jan to Aug 2025 month wise"
  /\ DraftKey = "last week"
  /\ build_arg.time.key = "last week"
  /\ Contains(result.sql, " WHERE DATE(leaddate) >= DATE '2025-01-01' AND DATE(leaddate) <= DATE '2025-08-31'")

-----------------------------------------------------------------------------
(* extract is total *)

(* the classification step failed: the call raised, or its answer is no JSON
   object *)
ClassificationFailed == llm.kind \in {"exception", "not_json", "not_dict"}

(* a field of the JSON object has a type the post-processing cannot use *)
WronglyTyped ==
  /\ llm.kind = "dict"
  /\ \/ ProductsRaise(llm.draft.products)
     \/ llm.draft.flags.shape = "str" /\ llm.draft.agent.shape = "dict"
        /\ (llm.draft.agent.mode = "summary" \/ llm.draft.agent.scan = "full")

LowConfidenceFallback(data) ==
  /\ data.intent = "metric_query"
  /\ data.confidence < DEFAULT_CONFIDENCE
  /\ data.products = <<>>
  /\ data.dimensions = <<>>
  /\ data.filters = <<>>
  /\ data.ambiguities # <<>>
  /\ \A k \in 1..Len(data.ambiguities) : data.ambiguities[k] # ""

(* C10: extract returns a record and raises nothing, for every text and every
   outcome of the classifier; when the classification step fails the record
   has intent metric_query, a low confidence, no products, dimensions or
   filters and a note in ambiguities. *)
C10_ExtractTotal ==
  Extracted =>
    /\ ~extracted.raised
    /\ extracted.data.intent \in {INTENTS[k] : k \in 1..Len(INTENTS)}
    /\ (ClassificationFailed \/ WronglyTyped) => LowConfidenceFallback(extracted.data)

(* the classifier's call raised with a message, which the note carries *)
C10_Witness ==
  /\ Extracted
  /\ llm.kind = "exception" /\ llm.error = "429 quota exceeded"
  /\ ~extracted.raised
  /\ extracted.data.confidence = FALLBACK_CONFIDENCE
  /\ extracted.data.ambiguities = <<"Extractor error: 429 quota exceeded">>

-----------------------------------------------------------------------------
(* wise / group by augmentation *)

(* the short tokens and the canonical column of each *)
WiseColumns ==
  <<<<"agent", "leadassignedagentname">>, <<"product", "investmenttypeid">>,
    <<"city", "city">>, <<"state", "state">>, <<"insurer", "insurername">>,
    <<"status", "booking_status">>>>

(* the text has tok wise or group by tok *)
AsksGroupBy(text, tok) ==
  LET t == Lower(TextOrEmpty(text))
  IN Contains(t, tok \o " wise") \/ Contains(t, "group by " \o tok)

TimesIn(x, xs) == Cardinality({i \in 1..Len(xs) : xs[i] = x})

(* the example: agent wise with no dimensions drafted *)
AgentWiseExample ==
  (/\ user_text = "leads agent wise last week"
   /\ llm.draft.dimensions = <<>>)
  => extracted.data.dimensions = <<"leadassignedagentname">>

(* C11: when the text has tok wise or group by tok for one of the short
   tokens, the record extract returns has the canonical column of tok in
   dimensions exactly once, whatever dimensions were drafted; for month or
   week, time.granularity is that value and no dimension is added; leads agent
   wise last week yields the dimensions leadassignedagentname. *)
C11_WiseGroupByApplied ==
  (Extracted /\ Succeeded) =>
    /\ \A k \in 1..Len(WiseColumns) :
         AsksGroupBy(user_text, WiseColumns[k][1]) =>
           TimesIn(WiseColumns[k][2], extracted.data.dimensions) = 1
    /\ \A g \in {"month", "week"} :
         AsksGroupBy(user_text, g) =>
           /\ extracted.data.time.granularity = g
           /\ extracted.data.dimensions = llm.draft.dimensions
    /\ AgentWiseExample

-----------------------------------------------------------------------------
(* the agent heuristic *)

(* build_sql returned the intent alone *)
OnlyIntent(r, intent) ==
  r.intent = intent /\ r.sql = None /\ r.explanation = None /\ r.raised = None

AgentStatusWins ==
  /\ Extracted => extracted.data.intent = "agent_status"
  /\ (pc = "built" /\ build_arg = extracted.data) => OnlyIntent(result, "agent_status")

(* C12 as stated: whenever the text matches an agent-status trigger, the
   record extract returns has intent agent_status and build_sql of that record
   returns the intent alone, with no sql. *)
C12_AgentHeuristicAlways ==
  (pc \in {"extracted", "built"} /\ agent_status_trigger(user_text)) => AgentStatusWins

(* C12: whenever the text matches an agent-status trigger and extract returns
   the record it made of the classifier's answer (not the fallback record of a
   failed classification), the record has intent agent_status whatever intent
   was drafted, and build_sql of that record returns the intent alone, with no
   sql. *)
C12_AgentHeuristicAuthoritative ==
  (pc \in {"extracted", "built"} /\ agent_status_trigger(user_text) /\ Succeeded)
    => AgentStatusWins

(* the classifier drafted a conversation for status of ravi; the record built
   on has intent agent_status and no statement is made of it *)
C12_Witness ==
  /\ pc = "built"
  /\ user_text = "status of ravi"
  /\ Succeeded
  /\ llm.draft.intent = "conversation"
  /\ build_arg = extracted.data
  /\ extracted.data.intent = "agent_status"
  /\ OnlyIntent(result, "agent_status")

-----------------------------------------------------------------------------
(* the turns of the chat *)

(* an event was handled *)
Handled == turn.handler # "none"

EventsOf(op) == {k \in 1..Len(turn.events) : turn.events[k].op = op}

(* the record extract returned in the turn asks for the summary of the
   agents *)
SummaryAsked ==
  \E k \in EventsOf("extract") : turn.events[k].ents.flags.agent_active_summary

(* a statement was built, or a built statement was passed to run_query *)
MetricSqlBuilt == \E k \in EventsOf("build_sql") : turn.events[k].sql # None

MetricSqlExecuted ==
  \E k \in EventsOf("build_sql"), j \in EventsOf("run_query") :
    /\ turn.events[k].sql # None
    /\ turn.events[j].sql = RStripSemicolons(Strip(turn.events[k].sql))

(* C13: for every turn whose extracted record has flags.agent_active_summary
   true, in every session mode and on both chat entry points, no metric SQL is
   built or executed in the turn and the turn is handled by the agent-status
   flow. *)
C13_AgentSummaryNeverBuildsSql ==
  (Handled /\ SummaryAsked) =>
    /\ turn.handler = "handle_agent_mode"
    /\ ~MetricSqlBuilt
    /\ ~MetricSqlExecuted

(* the statement execute_sql_query passes on of the one it is given *)
Passed(sql) == RStripSemicolons(Strip(sql))

(* the run_query of place j runs the statement build_sql made of the record
   extract returned for the text of the turn, both calls made before it *)
BuiltOfExtracted(j) ==
  \E k1 \in EventsOf("extract"), k2 \in EventsOf("build_sql") :
    /\ k1 < k2 /\ k2 < j
    /\ turn.events[k1].text = turn.text
    /\ turn.events[k1].ents = extract(turn.text, turn.llm, DefaultToday, None).data
    /\ turn.events[k2].ents = turn.events[k1].ents
    /\ turn.events[k2].sql = build_sql(turn.events[k1].ents).sql
    /\ turn.events[k2].sql # None
    /\ turn.events[j].sql = Passed(turn.events[k2].sql)

(* C14: on every routing path of a turn that runs a warehouse query for the
   user's question, the statement executed is the output of build_sql applied
   to the record extract returned for the text of the turn, and nothing is
   executed before both calls have returned. *)
C14_ExtractBuildExecute ==
  (Handled /\ turn.handler = "run_main_logic") =>
    \A j \in EventsOf("run_query") : BuiltOfExtracted(j)

(* C15: every message and every button action, in every session state and
   for every outcome of extraction, building and execution, has at least one
   human-readable message delivered to the user before its handler
   returns. *)
C15_EveryTurnReplies ==
  Handled => \E k \in 1..Len(turn.replies) : turn.replies[k].text # ""

(* the cells of the masked columns of the tables the warehouse returned in
   the turn, those the masking leaves as they are apart *)
UnmaskedCells ==
  {turn.events[j].df.rows[r][c] :
     <<j, r, c>> \in
       {x \in EventsOf("run_query") \X (1..2) \X (1..2) :
          /\ x[2] <= Len(turn.events[x[1]].df.rows)
          /\ x[3] <= Len(turn.events[x[1]].df.columns)
          /\ IsMaskedColumn(turn.events[x[1]].df.columns[x[3]])
          /\ mask_value(turn.events[x[1]].df.rows[x[2]][x[3]], turn.events[x[1]].df.columns[x[3]])
               # turn.events[x[1]].df.rows[x[2]][x[3]]}}

(* C16: the result text sent to the user for an executed query is made of the
   masked rows: no unmasked warehouse value of a column whose registry entry
   has a pii_level other than none and a masking strategy other than none
   appears in a reply. *)
C16_MaskingPrecedesReply ==
  (Handled /\ turn.handler = "run_main_logic") =>
    \A v \in UnmaskedCells : \A k \in 1..Len(turn.replies) : ~Contains(turn.replies[k].text, v)
-----------------------------------------------------------------------------
(* the distinct-value cache *)

(* C17: whatever threads call get() or prewarm_async() while the data is
   stale or missing, no two workers are running at once: a call made while a
   refresh is in progress starts no new worker. *)
C17_OneRefreshInFlight == Cardinality(Running) <= 1

(* both threads have gone through prewarm_async while the one worker is at
   its queries *)
C17_Witness ==
  /\ Len(workers) = 1
  /\ workers[1].pc = "build"
  /\ \A c \in Callers : At(c, "get", "return")

(* the lock is not held while the queries of the warehouse run, and no
   calling thread runs them *)
NoWaitOnWarehouse ==
  /\ _lock # 0 => workers[_lock].pc = "save"
  /\ queried_by \subseteq {"worker"}

(* the step of c is one of get() *)
GetStep(c, from, to) ==
  /\ callers[c].op = "get"
  /\ callers[c].pc = from
  /\ callers'[c].pc = to

StartsWorker ==
  /\ Len(workers') = Len(workers) + 1
  /\ workers'[Len(workers')].pc = "build"

(* get() returns at line 119 with a dict that is not empty and fresh, and
   where it goes on with no refresh in progress it starts one *)
GetStartsRefresh ==
  \A c \in Callers :
    /\ GetStep(c, "check2", "idle") => (NonEmpty(_data) /\ _is_fresh(wall, _last_loaded))
    /\ (GetStep(c, "prewarm", "return") /\ Running = {}) => StartsWorker

(* C18: in every state of the cache get() returns without a query of the
   warehouse on the calling thread and without waiting for the queries of a
   running refresh, and whenever the data it found is stale or missing and
   no refresh is in progress it starts a background refresh. *)
C18_GetNeverBlocks == [][NoWaitOnWarehouse' /\ GetStartsRefresh]_vars

(* a call of get() returns while a refresh is at its queries *)
C18_Witness ==
  \E c \in Callers : At(c, "get", "return") /\ Building # {}

(* the file holds a payload that is fresh *)
FreshSnapshot == snapshot.kind = "json" /\ _is_fresh(wall, snapshot.timestamp)

(* C19: get() returns the best data there is: after any refreshes, saves
   (failed ones too) and loads (of a missing, stale or corrupt file too), a
   dict in memory that is not empty is never replaced by an empty one or by
   older data when the file holds no fresh snapshot. *)
C19_BestAvailableData ==
  [][(NonEmpty(_data) /\ ~FreshSnapshot) => (NonEmpty(_data') /\ _data'.at >= _data.at)]_vars

(* a call of get() that began when a refresh had completed and none was
   running, none having been started since and the ttl not having passed
   since the refresh saved its data *)
AfterRefresh(c) ==
  /\ callers[c].op = "get"
  /\ callers[c].settled > 0
  /\ callers[c].settled = Len(workers)
  /\ _is_fresh(wall, refreshed.at)

(* C20: once a background refresh has completed the cache is fresh: every
   get() made before the ttl has passed returns the refreshed data and
   starts no further refresh; a new refresh is started only when the ttl has
   passed. *)
C20_FreshAfterRefresh ==
  [][\A c \in Callers :
       AfterRefresh(c) =>
         /\ (GetStep(c, "check2", "idle") \/ GetStep(c, "return", "idle"))
               => _data = refreshed.data
         /\ GetStep(c, "prewarm", "return") => workers' = workers]_vars

(* the step writes the dict in memory or its timestamp *)
WritesShared == _data' # _data \/ _last_loaded' # _last_loaded

(* the step is of a worker that takes the lock with it *)
ByLockHolder == _lock' # 0 /\ workers[_lock'].pc = "swap" /\ workers'[_lock'].pc = "save"

(* C27: in every interleaving of the threads that run get() with the
   worker of a refresh, the dict in memory and its timestamp are written
   only by a thread that holds the lock of the cache, so that no get()
   writes a dict older than the one it finds in memory. *)
C27_WritesUnderLock ==
  [][/\ WritesShared => ByLockHolder
     /\ \A c \in Callers : GetStep(c, "load_data", "load_stamp") => _data'.at >= _data.at]_vars

(* the worker w has been started and has not ended *)
IsRunning(w) == w <= Len(workers) /\ workers[w].pc # "done"

(* C29: every refresh that was started ends in the end, and with it the
   flag of the refresh in progress is cleared, also when every query of the
   columns fails and when the save fails: the flag never stays set for
   ever, so that a later call can start a new refresh. *)
C29_GuardReleased ==
  /\ _prewarming ~> ~_prewarming
  /\ \A w \in 1..MaxRefreshes : IsRunning(w) ~> (~IsRunning(w) /\ w <= Len(workers))

(* a refresh whose save left a file that is not JSON has ended, and a call
   after it has started the next *)
C29_Witness ==
  /\ Len(workers) = 2
  /\ workers[1].pc = "done"
  /\ workers[2].pc = "build"
  /\ snapshot.kind = "corrupt"
  /\ _prewarming
-----------------------------------------------------------------------------
(* Claims about the tables of the query cache *)

(* C21: when run_query with use_cache true is served from the cache, the
   table handed to the caller is a copy of the cached table: whatever the
   callers did to the tables they were handed before, a cache hit returns
   the table as pd.read_sql gave it. *)
C21_CacheHitsReturnCopies ==
  (handed.status = "returned" /\ handed.hit) => frames[handed.frame] = Fetched[handed.sql]

-----------------------------------------------------------------------------
(* Claims about the feedback log *)

(* the item an update is about: the one of the log before the call that
   carries the id *)
UpdatedItem == fb_call.log_before[FirstWithId(fb_call.log_before, fb_call.feedback_id)]

ApprovalCalled ==
  /\ fb_call.op = "update"
  /\ fb_call.status = "approved"
  /\ FirstWithId(fb_call.log_before, fb_call.feedback_id) # 0

(* C22: after store_feedback with a context that carries SQL, the first
   update_feedback_status(id, 'approved') appends exactly one entry to the
   approved logic, and every repeated update_feedback_status(id, 'approved')
   returns true and appends no further entry. *)
C22_ApprovalIdempotent ==
  (ApprovalCalled /\ Truthy(UpdatedItem.context.sql)) =>
    /\ fb_call.returned
    /\ IF UpdatedItem.status = "approved"
       THEN business_logics = fb_call.logics_before
       ELSE business_logics = Append(fb_call.logics_before, ApprovedLogic(UpdatedItem))

(* C23: every record is created with status pending and makes at most one
   transition, from pending to approved or from pending to rejected; a
   record that is approved or rejected keeps its status. *)
C23_FeedbackLifecycle ==
  [][/\ \A k \in 1..Len(feedback_log) :
          feedback_log'[k].status # feedback_log[k].status =>
            /\ feedback_log[k].status = "pending"
            /\ feedback_log'[k].status \in {"approved", "rejected"}
     /\ \A k \in (Len(feedback_log) + 1)..Len(feedback_log') :
          feedback_log'[k].status = "pending"]_vars

(* C24: the ids store_feedback returns follow the order of creation and no
   two records of the log share an id, also when two are stored within one
   second, so that update_feedback_status(id, s) sets the status of the one
   record store_feedback returned the id for, and of no other. *)
C24_IdsIdentifyRecords ==
  /\ \A i, j \in 1..Len(feedback_log) : i < j => feedback_log[i].id < feedback_log[j].id
  /\ fb_call.op = "update" =>
       \A k \in 1..Len(feedback_log) :
         feedback_log[k].status =
           IF fb_call.log_before[k].id = fb_call.feedback_id
           THEN fb_call.status ELSE fb_call.log_before[k].status

(* no handler is in a call on the manager *)
HandlersIdle == \A h \in Handlers : fb_threads[h].at = "idle"

(* C28: when calls of store_feedback and update_feedback_status by handlers
   that run at a time interleave, then after all have returned the feedback
   file holds the effect of every call: what is read of it is the feedback
   log in memory. *)
C28_NoLostFeedback ==
  (HandlersIdle /\ fb_call.op # "none") => _load_logics(feedback_file) = feedback_log

-----------------------------------------------------------------------------
(* Claims about resolve_products *)

(* the ids of the products of which an alias stands in the text as a whole
   word or phrase, whatever the case, in ascending order *)
NamedProducts(text) ==
  Let(Lower(TextOrEmpty(text)), LAMBDA t :
    SortSet({PRODUCTS[n][2] : n \in {m \in 1..Len(PRODUCTS) : OccursAsWord(t, PRODUCTS[m][1])}}))

Named == [text \in ResolveTexts |-> NamedProducts(text)]

(* C25: resolve_products(text) returns the ascending list of exactly the
   product ids that have an alias occurring in the text as a whole word or
   phrase, case-insensitively ('number of leads in ghi' gives [1], 'fire and
   marine bookings' [5, 13]); a text that names no alias, and an empty or
   white-space text, give the empty list. *)
C25_ResolveProducts ==
  rp_call.status = "returned" => rp_call.returned = Named[rp_call.text]

-----------------------------------------------------------------------------
(* Claims about the subscriptions *)

StoredIds(subs) == {subs[k].id : k \in 1..Len(subs)}

(* C26: after add_subscription returns an id, get_user_subscriptions(user)
   contains the subscription with that id; remove_subscription(id) then
   returns True and removes exactly the subscription that call created,
   leaving every other one in place; remove_subscription of an id that is
   not stored returns False and leaves the store unchanged. *)
C26_AddThenRemove ==
  /\ sub_call.op = "add" =>
       \E k \in 1..Len(sub_call.listed) :
         sub_call.listed[k].id = sub_call.id /\ sub_call.listed[k].nth = sub_call.nth
  /\ (sub_call.op = "remove" /\ sub_call.nth # 0) =>
       /\ sub_call.returned
       /\ subscriptions = SelectSeq(sub_call.before, LAMBDA s : s.nth # sub_call.nth)
  /\ (sub_call.op = "remove" /\ sub_call.id \notin StoredIds(sub_call.before)) =>
       /\ ~sub_call.returned
       /\ subscriptions = sub_call.before
       /\ subscriptions_file = sub_call.before

(* C30: build_sql is deterministic and leaves its input unchanged: after a
   call the record's filters are what they were before it, and a second call
   on the same record object returns the SQL and the explanation of the first,
   the fuzzy LIKE clause included *)
C30_BuildSqlRepeatable ==
  pc = "built" =>
    /\ entities = build_arg
    /\ build_sql(entities) = result
-----------------------------------------------------------------------------
(* Claims about run_query *)

DbReturned == db_call.status = "returned"

Blank(sql) == sql = None \/ Strip(sql) = ""

(* the four grounds of refusal, case and surrounding white space disregarded *)
Unsafe(sql) ==
  \/ Blank(sql)
  \/ ~StartsWith(Upper(Strip(sql)), "SELECT")
  \/ \E kw \in DANGEROUS : Contains(Upper(sql), kw)
  \/ ~Contains(Lower(sql), ALLOWED_TABLE)

(* C2: for every SQL text that is blank, does not begin with SELECT, contains
   a denylisted keyword or does not contain the allowed table, run_query fails
   with a validation error without calling the engine and without reading or
   changing the query cache, with or without an engine and whatever use_cache
   is; a statement that passes validation fails with ConnectionError when
   there is no engine. *)
C2_UnsafeRefused ==
  DbReturned =>
    /\ Unsafe(db_call.sql) =>
         /\ db_call.outcome.raised = "ValueError"
         /\ ~db_call.outcome.engine_called
         /\ ~db_call.outcome.cache_read
         /\ query_cache = db_call.cache_before
    /\ (~Unsafe(db_call.sql) /\ engine = None) =>
         db_call.outcome.raised = "ConnectionError"

(* a statement with a denylisted word in a literal is refused although the
   engine is there, the cache has an entry and use_cache is set *)
C2_Witness ==
  /\ DbReturned
  /\ Contains(db_call.sql, "booking_status IN ('Updated')")
  /\ db_call.use_cache
  /\ engine # None
  /\ query_cache # <<>>
  /\ db_call.outcome.raised = "ValueError"
  /\ db_call.outcome.message = "SQL query failed security validation"

=============================================================================
